---- MODULE Spec2Model ----
(***************************************************************************)
(* Verification model of the KEBA home API telemetry agent: the plug       *)
(* debouncer (domain/session_state.rs), the energy accountant              *)
(* (domain/session_energy.rs) and the session poller with its store        *)
(* (app/runtime.rs, app/services.rs, adapters/db.rs).                      *)
(*                                                                         *)
(* Three specifications share the module's variables:                      *)
(*   SpecDebounce  the SessionStateMachine alone, fed observations         *)
(*   SpecEnergy    compute_session_kwh applied to bounded snapshots        *)
(*   Spec          the poll loop of start_poller driving SessionPoller      *)
(***************************************************************************)
EXTENDS Integers, Sequences, FiniteSets, TLC

(***************************************************************************)
(* Bounds of the model (not program constants).                            *)
(***************************************************************************)
MaxDebounce == 3        \* debounce_samples ranges over 0..MaxDebounce
MaxCalls == 7           \* observe/observe_at calls in SpecDebounce
MaxTime == 2            \* timestamps range over 0..MaxTime in SpecDebounce
MaxEnergy == 2          \* finite energy readings range over -MaxEnergy..MaxEnergy
I64Bits == 5            \* width the model gives TimestampMs (i64 in the program)
MaxDateTime == 8        \* chrono::DateTime covers -MaxDateTime..MaxDateTime milliseconds

(***************************************************************************)
(* Option<T>: None is the empty tuple, Some(x) the one-element tuple.      *)
(***************************************************************************)
None == << >>
Some(x) == << x >>
IsSome(o) == o # << >>
IsNone(o) == o = << >>
Unwrap(o) == o[1]
UnwrapOr(o, d) == IF o # << >> THEN o[1] ELSE d

(***************************************************************************)
(* f64 values: a finite value (an integer number of kWh here), the two     *)
(* infinities, and NaN. Subtraction and comparison follow IEEE 754.        *)
(***************************************************************************)
Fin(n) == [k |-> "fin", v |-> n]
PosInf == [k |-> "pinf", v |-> 0]
NegInf == [k |-> "ninf", v |-> 0]
NaN == [k |-> "nan", v |-> 0]

FSub(a, b) ==
    CASE a.k = "nan" \/ b.k = "nan" -> NaN
      [] a.k = "pinf" -> IF b.k = "pinf" THEN NaN ELSE PosInf
      [] a.k = "ninf" -> IF b.k = "ninf" THEN NaN ELSE NegInf
      [] b.k = "pinf" -> NegInf
      [] b.k = "ninf" -> PosInf
      [] OTHER -> Fin(a.v - b.v)

\* x < 0.0
FLtZero(x) == x.k = "ninf" \/ (x.k = "fin" /\ x.v < 0)
\* x >= 0.0
FGeZero(x) == x.k = "pinf" \/ (x.k = "fin" /\ x.v >= 0)

VARIABLES
    machine,        \* SessionStateMachine
    run,            \* history: the trailing run of equal observations fed to the machine
    emitted,        \* history: what the last observe/observe_at call returned
    stable_before,  \* history: stable_plugged before the last call
    calls,          \* history: number of observe/observe_at calls so far
    flap,           \* history: the machine before the trailing run and the run before it
    e_start,        \* compute_session_kwh: argument start
    e_end,          \* compute_session_kwh: argument end
    e_result,       \* compute_session_kwh: None before the call, Some(result) after
    poller,         \* SessionPoller (its debouncer is machine)
    db,             \* the store: charging_sessions, log_events, charging_session_log_events
    results_file,   \* the entries of the results JSON file
    lock_poisoned,  \* whether the mutex around the connection is poisoned
    now,            \* the clock reading of the coming loop iteration
    stop_flag,      \* the AtomicBool start_poller reads; unset in the runs below
    poller_thread,  \* "running" or "exited"
    faults,         \* number of faults the environment has injected so far
    ghost,          \* history: sessions as the transitions delimit them; in SpecTransitions
                    \* the transitions returned, in SpecClock the machines compared
    last,           \* history: what the last loop iteration did
    mutex,          \* the Mutex around the connection: its holder, its poison flag
    thread_pc,      \* where each thread is in with_connection
    ops_done,       \* number of with_connection calls each thread has finished
    link_call,      \* history: the last link_session_log_events call, if any
    disk,           \* the SQLite file run_migrations works on
    migration,      \* history: the run_migrations calls made so far
    duration,       \* the build's overflow checks; history: the last session record built
    http,           \* the HTTP surface: the queries answered so far, the last response
    combined,       \* run_combined: the main thread, the poll loop and the HTTP server;
                    \* in SpecVisible where persist_session_and_finalize has got to
    replay,         \* the debug-file client and the replay loop
    api             \* run_api: the file it opens and what became of the call

debounceVars == << machine, run, emitted, stable_before, calls, flap >>
energyVars == << e_start, e_end, e_result >>
pollerVars == << poller, db, results_file, lock_poisoned, now, stop_flag,
                 poller_thread, faults, ghost, last >>
mutexVars == << mutex, thread_pc, ops_done >>
vars == << machine, run, emitted, stable_before, calls, flap, e_start, e_end, e_result,
           poller, db, results_file, lock_poisoned, now, stop_flag,
           poller_thread, faults, ghost, last, mutex, thread_pc, ops_done,
           link_call, disk, migration, duration, http, combined, replay, api >>

\* The threads of run_combined that use the SqliteSessionService: the poller
\* thread and the workers of the HTTP server.
Threads == {"poller", "http1", "http2"}

\* No thread has called with_connection yet.
MutexIdle ==
    /\ mutex = [holder |-> << >>, poisoned |-> FALSE]
    /\ thread_pc = [t \in Threads |-> "idle"]
    /\ ops_done = [t \in Threads |-> 0]

\* The variables of the specifications that follow the poller's, at rest.
migrateVars == << disk, migration >>
MigrateIdle ==
    /\ disk = [ user_version |-> 0, foreign_keys |-> TRUE,
                tables |-> [ sessions |-> << >>, charging_sessions |-> << >>,
                             log_events |-> << >>,
                             charging_session_log_events |-> << >> ] ]
    /\ migration = [ runs |-> 0, last |-> << >> ]
DurationIdle == duration = [ overflow_checks |-> FALSE, built |-> << >> ]
laterVars == << http, combined, replay, api >>
LaterIdle == http = << >> /\ combined = << >> /\ replay = << >> /\ api = << >>
restVars == << mutexVars, link_call, migrateVars, duration, laterVars >>
RestIdle == MutexIdle /\ link_call = << >> /\ MigrateIdle /\ DurationIdle /\ LaterIdle

(***************************************************************************)
(* domain/session_state.rs                                                 *)
(***************************************************************************)
Times == 0..MaxTime

\* usize::max(debounce_samples, 1)
Max(a, b) == IF a >= b THEN a ELSE b

\* SessionStateMachine::new keeping a debounce setting of 0 as it is.
NewMachine_KeepsZero(debounce_samples) ==
    [ debounce_samples |-> debounce_samples,
      stable_plugged |-> None,
      candidate |-> None,
      active_session_started_at |-> None ]

\* SessionStateMachine::new
NewMachine(debounce_samples) ==
    [ debounce_samples |-> Max(debounce_samples, 1),
      stable_plugged |-> None,
      candidate |-> None,
      active_session_started_at |-> None ]

Plugged(plugged_at) == [kind |-> "Plugged", plugged_at |-> plugged_at]
Unplugged(plugged_at, unplugged_at) ==
    [kind |-> "Unplugged", plugged_at |-> plugged_at, unplugged_at |-> unplugged_at]

\* SessionStateMachine::accept_candidate_at: the machine after the call and
\* the boolean it returns.
AcceptCandidateAt(m, plugged_observation, observed_at) ==
    IF IsSome(m.candidate) /\ Unwrap(m.candidate).plugged = plugged_observation
    THEN LET c == [Unwrap(m.candidate) EXCEPT !.count = @ + 1]
         IN  [ machine |-> [m EXCEPT !.candidate = Some(c)],
               accepted |-> c.count >= m.debounce_samples ]
    ELSE [ machine |-> [m EXCEPT !.candidate =
                          Some([ plugged |-> plugged_observation,
                                 count |-> 1,
                                 first_observed_at |-> observed_at ])],
           accepted |-> m.debounce_samples = 1 ]

\* accept_candidate_with_clock stamping a new candidate with TimestampMs(0),
\* as observe does before a stable state exists, instead of reading the
\* clock.
AcceptCandidateWithClock_StampsEpoch(m, plugged_observation, clock_now) ==
    IF IsSome(m.candidate) /\ Unwrap(m.candidate).plugged = plugged_observation
    THEN LET c == [Unwrap(m.candidate) EXCEPT !.count = @ + 1]
         IN  [ machine |-> [m EXCEPT !.candidate = Some(c)],
               accepted |-> c.count >= m.debounce_samples ]
    ELSE [ machine |-> [m EXCEPT !.candidate =
                          Some([ plugged |-> plugged_observation,
                                 count |-> 1,
                                 first_observed_at |-> 0 ])],
           accepted |-> m.debounce_samples = 1 ]

\* SessionStateMachine::accept_candidate_with_clock: clock.now() is read only
\* when a candidate is started.
AcceptCandidateWithClock(m, plugged_observation, clock_now) ==
    IF IsSome(m.candidate) /\ Unwrap(m.candidate).plugged = plugged_observation
    THEN LET c == [Unwrap(m.candidate) EXCEPT !.count = @ + 1]
         IN  [ machine |-> [m EXCEPT !.candidate = Some(c)],
               accepted |-> c.count >= m.debounce_samples ]
    ELSE [ machine |-> [m EXCEPT !.candidate =
                          Some([ plugged |-> plugged_observation,
                                 count |-> 1,
                                 first_observed_at |-> clock_now ])],
           accepted |-> m.debounce_samples = 1 ]

\* EmitTransition stamping the transition with the observation that reached
\* the threshold instead of the candidate's first observation.
EmitTransition_ThresholdStamp(a, stable, plugged_observation, fallback_at) ==
    LET adopted == [a.machine EXCEPT !.stable_plugged = Some(plugged_observation),
                                     !.candidate = None]
    IN  IF ~stable /\ plugged_observation
        THEN [ machine |-> [adopted EXCEPT !.active_session_started_at = Some(fallback_at)],
               transition |-> Some(Plugged(fallback_at)) ]
        ELSE IF stable /\ ~plugged_observation
        THEN [ machine |-> [adopted EXCEPT !.active_session_started_at = None],
               transition |-> Some(Unplugged(
                   UnwrapOr(adopted.active_session_started_at, fallback_at),
                   fallback_at)) ]
        ELSE [ machine |-> adopted, transition |-> None ]

\* EmitTransition taking every Unplugged for one without a session: both
\* bounds are the candidate's first observation.
EmitTransition_UnpluggedOwnStart(a, stable, plugged_observation, fallback_at) ==
    LET transition_at ==
            IF IsSome(a.machine.candidate)
            THEN Unwrap(a.machine.candidate).first_observed_at
            ELSE fallback_at
        adopted == [a.machine EXCEPT !.stable_plugged = Some(plugged_observation),
                                     !.candidate = None]
    IN  IF ~stable /\ plugged_observation
        THEN [ machine |-> [adopted EXCEPT !.active_session_started_at = Some(transition_at)],
               transition |-> Some(Plugged(transition_at)) ]
        ELSE IF stable /\ ~plugged_observation
        THEN [ machine |-> [adopted EXCEPT !.active_session_started_at = None],
               transition |-> Some(Unplugged(transition_at, transition_at)) ]
        ELSE [ machine |-> adopted, transition |-> None ]

\* The third match arm of observe/observe_at once the candidate was accepted:
\* a is the result of the accept call, stable the stable state before it.
EmitTransition(a, stable, plugged_observation, fallback_at) ==
    LET transition_at ==
            IF IsSome(a.machine.candidate)
            THEN Unwrap(a.machine.candidate).first_observed_at
            ELSE fallback_at
        adopted == [a.machine EXCEPT !.stable_plugged = Some(plugged_observation),
                                     !.candidate = None]
    IN  IF ~stable /\ plugged_observation
        THEN [ machine |-> [adopted EXCEPT !.active_session_started_at = Some(transition_at)],
               transition |-> Some(Plugged(transition_at)) ]
        ELSE IF stable /\ ~plugged_observation
        THEN [ machine |-> [adopted EXCEPT !.active_session_started_at = None],
               transition |-> Some(Unplugged(
                   UnwrapOr(adopted.active_session_started_at, transition_at),
                   transition_at)) ]
        ELSE [ machine |-> adopted, transition |-> None ]

\* The first match arm adopting a plugged state as the start of a session.
Adopt_OpensSession(a, plugged_observation) ==
    IF a.accepted
    THEN [ machine |-> [a.machine EXCEPT
                           !.stable_plugged = Some(plugged_observation),
                           !.candidate = None,
                           !.active_session_started_at =
                               IF plugged_observation
                               THEN Some(Unwrap(a.machine.candidate).first_observed_at)
                               ELSE None],
           transition |-> IF plugged_observation
                          THEN Some(Plugged(Unwrap(a.machine.candidate).first_observed_at))
                          ELSE None ]
    ELSE [ machine |-> a.machine, transition |-> None ]

\* The first match arm of observe/observe_at, no stable state yet: a is the
\* result of the accept call. The value is adopted when the candidate was
\* accepted; no transition is returned.
Adopt(a, plugged_observation) ==
    [ machine |-> IF a.accepted
                  THEN [a.machine EXCEPT !.stable_plugged = Some(plugged_observation),
                                         !.candidate = None]
                  ELSE a.machine,
      transition |-> None ]

\* observe_at without the candidate reset on an observation of the stable
\* value: observations of the new value need not be consecutive.
ObserveAt_KeepsCandidate(m, plugged_observation, observed_at) ==
    IF IsNone(m.stable_plugged)
    THEN LET a == AcceptCandidateAt(m, plugged_observation, observed_at)
         IN  Adopt(a, plugged_observation)
    ELSE IF Unwrap(m.stable_plugged) = plugged_observation
    THEN [ machine |-> m, transition |-> None ]
    ELSE LET a == AcceptCandidateAt(m, plugged_observation, observed_at)
         IN  IF ~a.accepted
             THEN [ machine |-> a.machine, transition |-> None ]
             ELSE EmitTransition(a, Unwrap(m.stable_plugged), plugged_observation, observed_at)

\* SessionStateMachine::observe_at
ObserveAt(m, plugged_observation, observed_at) ==
    IF IsNone(m.stable_plugged)
    THEN LET a == AcceptCandidateAt(m, plugged_observation, observed_at)
         IN  Adopt(a, plugged_observation)
    ELSE IF Unwrap(m.stable_plugged) = plugged_observation
    THEN [ machine |-> [m EXCEPT !.candidate = None], transition |-> None ]
    ELSE LET a == AcceptCandidateAt(m, plugged_observation, observed_at)
         IN  IF ~a.accepted
             THEN [ machine |-> a.machine, transition |-> None ]
             ELSE EmitTransition(a, Unwrap(m.stable_plugged), plugged_observation, observed_at)

\* observe keeping the candidate when the stable value is observed.
Observe_KeepsCandidate(m, plugged_observation, clock_now) ==
    IF IsNone(m.stable_plugged)
    THEN LET a == AcceptCandidateAt(m, plugged_observation, 0)
         IN  Adopt(a, plugged_observation)
    ELSE IF Unwrap(m.stable_plugged) = plugged_observation
    THEN [ machine |-> m, transition |-> None ]
    ELSE LET a == AcceptCandidateWithClock(m, plugged_observation, clock_now)
         IN  IF ~a.accepted
             THEN [ machine |-> a.machine, transition |-> None ]
             ELSE EmitTransition(a, Unwrap(m.stable_plugged), plugged_observation, clock_now)

\* SessionStateMachine::observe: before a stable state exists the candidate is
\* stamped TimestampMs(0); afterwards with the clock.
Observe(m, plugged_observation, clock_now) ==
    IF IsNone(m.stable_plugged)
    THEN LET a == AcceptCandidateAt(m, plugged_observation, 0)
         IN  Adopt(a, plugged_observation)
    ELSE IF Unwrap(m.stable_plugged) = plugged_observation
    THEN [ machine |-> [m EXCEPT !.candidate = None], transition |-> None ]
    ELSE LET a == AcceptCandidateWithClock(m, plugged_observation, clock_now)
         IN  IF ~a.accepted
             THEN [ machine |-> a.machine, transition |-> None ]
             ELSE EmitTransition(a, Unwrap(m.stable_plugged), plugged_observation, clock_now)

(***************************************************************************)
(* domain/session_energy.rs                                                *)
(***************************************************************************)
EnergySnapshot(present_session_kwh, total_kwh) ==
    [present_session_kwh |-> present_session_kwh, total_kwh |-> total_kwh]

EnergyOk(kwh, source, warnings) ==
    [ok |-> TRUE, kwh |-> kwh, source |-> source, warnings |-> warnings,
     error |-> "none"]

EnergyErr(error) ==
    [ok |-> FALSE, kwh |-> Fin(0), source |-> "none", warnings |-> << >>,
     error |-> error]

\* start.and_then(|snapshot| snapshot.present_session_kwh)
StartPresent(start) == IF IsSome(start) THEN Unwrap(start).present_session_kwh ELSE None
\* start.and_then(|snapshot| snapshot.total_kwh)
StartTotal(start) == IF IsSome(start) THEN Unwrap(start).total_kwh ELSE None

\* compute_session_kwh consulting the totals before the present-session counter.
compute_session_kwh_TotalsFirst(start, end) ==
    IF IsSome(StartTotal(start)) /\ IsSome(end.total_kwh)
    THEN LET raw_delta == FSub(Unwrap(end.total_kwh), Unwrap(StartTotal(start)))
         IN  IF FLtZero(raw_delta)
             THEN EnergyOk(Fin(0), "TotalDelta", << "NegativeTotalDeltaClamped" >>)
             ELSE EnergyOk(raw_delta, "TotalDelta", << >>)
    ELSE IF IsSome(end.present_session_kwh)
    THEN EnergyOk(Unwrap(end.present_session_kwh), "PresentSession", << >>)
    ELSE EnergyErr("NoUsableEnergyData")

\* compute_session_kwh clamping a negative value without a warning.
compute_session_kwh_ClampsSilently(start, end) ==
    IF IsSome(end.present_session_kwh)
    THEN LET end_present == Unwrap(end.present_session_kwh)
         IN  IF IsSome(StartPresent(start))
             THEN LET raw_delta == FSub(end_present, Unwrap(StartPresent(start)))
                  IN  IF FLtZero(raw_delta)
                      THEN EnergyOk(Fin(0), "PresentSessionDelta", << >>)
                      ELSE EnergyOk(raw_delta, "PresentSessionDelta", << >>)
             ELSE IF FLtZero(end_present)
                  THEN EnergyOk(Fin(0), "PresentSession", << >>)
                  ELSE EnergyOk(end_present, "PresentSession", << >>)
    ELSE IF IsSome(StartTotal(start)) /\ IsSome(end.total_kwh)
    THEN LET raw_delta == FSub(Unwrap(end.total_kwh), Unwrap(StartTotal(start)))
         IN  IF FLtZero(raw_delta)
             THEN EnergyOk(Fin(0), "TotalDelta", << >>)
             ELSE EnergyOk(raw_delta, "TotalDelta", << >>)
    ELSE EnergyErr("NoUsableEnergyData")

\* compute_session_kwh(start: Option<&EnergySnapshot>, end: &EnergySnapshot)
compute_session_kwh(start, end) ==
    IF IsSome(end.present_session_kwh)
    THEN LET end_present == Unwrap(end.present_session_kwh)
         IN  IF IsSome(StartPresent(start))
             THEN LET raw_delta == FSub(end_present, Unwrap(StartPresent(start)))
                  IN  IF FLtZero(raw_delta)
                      THEN EnergyOk(Fin(0), "PresentSessionDelta",
                                    << "NegativePresentSessionDeltaClamped" >>)
                      ELSE EnergyOk(raw_delta, "PresentSessionDelta", << >>)
             ELSE IF FLtZero(end_present)
                  THEN EnergyOk(Fin(0), "PresentSession",
                                << "NegativePresentSessionValueClamped" >>)
                  ELSE EnergyOk(end_present, "PresentSession", << >>)
    ELSE IF IsSome(StartTotal(start)) /\ IsSome(end.total_kwh)
    THEN LET raw_delta == FSub(Unwrap(end.total_kwh), Unwrap(StartTotal(start)))
         IN  IF FLtZero(raw_delta)
             THEN EnergyOk(Fin(0), "TotalDelta", << "NegativeTotalDeltaClamped" >>)
             ELSE EnergyOk(raw_delta, "TotalDelta", << >>)
    ELSE EnergyErr("NoUsableEnergyData")

(***************************************************************************)
(* app/runtime.rs, app/services.rs, adapters/db.rs: the session poller and  *)
(* its store.                                                              *)
(*                                                                         *)
(* The operators below take and return a record w, the state one loop      *)
(* iteration works on:                                                     *)
(*   machine, poller             SessionPoller (machine is its debouncer)  *)
(*   db                          the three tables                          *)
(*   results_file                the entries of the results JSON file      *)
(*   lock_poisoned               whether the connection mutex is poisoned  *)
(*   now                         the clock reading of this iteration       *)
(*   report3_calls, results_calls                                          *)
(*                               calls made in this iteration              *)
(*   insert_answers, link_answers                                          *)
(*                               what the attempts of this iteration got   *)
(*   insert_asked, link_asked    answers taken from the store scripts      *)
(*   link_failed                 a link call failed inside the store       *)
(*   link_ids                    number of ids the last link call was given *)
(*   transition                  the transition of this iteration          *)
(*   ghost                       history kept for the properties           *)
(* and a record in, the answers the environment gives in this iteration:   *)
(*   report2, report3 (None for a failed fetch, else the payload),         *)
(*   insert and link (what the store answers to the successive attempts),  *)
(*   link_done (statements executed by a failing link call before its      *)
(*   error), results_ok.                                                   *)
(***************************************************************************)

\* const SESSION_PERSIST_MAX_RETRIES
SESSION_PERSIST_MAX_RETRIES == 3

\* A store script: the first `contended` attempts are answered with the
\* contention error `contention` ("busy" or "locked"), every later one
\* with `final` ("ok", or "other" for any other rusqlite/Db error).
StoreAnswer(script, call) ==
    IF call <= script.contended THEN script.contention ELSE script.final

\* SqliteSessionService::with_connection: a poisoned mutex fails every
\* operation before it reaches the connection.
WithConnection(w, answer) == IF w.lock_poisoned THEN "poisoned" ELSE answer

\* is_retryable_db_contention retrying every database error.
is_retryable_db_contention_AnyDbError(error) == error # "poisoned"

\* is_retryable_db_contention
is_retryable_db_contention(error) ==
    CASE error = "poisoned" -> FALSE
      [] error \in {"busy", "locked"} -> TRUE
      [] OTHER -> FALSE

\* service_error_to_poller_error
service_error_to_poller_error(error) ==
    IF error = "poisoned" THEN "DbLockPoisoned" ELSE "Database"

\* poller_error_code
poller_error_code(error) ==
    CASE error = "FetchReport2" -> "poll.fetch_report2"
      [] error = "ParseReport2" -> "poll.parse_report2"
      [] error = "DbLockPoisoned" -> "poll.db_lock_poisoned"
      [] error = "Database" -> "poll.database"
      [] error = "ResultsIo" -> "poll.results_io"

\* persist_log_event over a log_events table that keeps only the newest
\* event.
PersistLogEvent_KeepsNewest(w, in, code, link_to_active_session) ==
    LET answer == WithConnection(w, "ok")
        log_event_id == Len(w.db.log_events) + 1
    IN  IF answer = "ok"
        THEN [w EXCEPT !.db.log_events = << [ id |-> log_event_id,
                                              code |-> code,
                                              g_session |-> w.ghost.session ] >>,
                       !.poller.pending_session_log_event_ids =
                           IF link_to_active_session THEN Append(@, log_event_id) ELSE @]
        ELSE w

\* SessionPoller::persist_log_event with db::insert_log_event: the id is a
\* fresh one; a failure (here: of the mutex) is only traced.
PersistLogEvent(w, in, code, link_to_active_session) ==
    LET answer == WithConnection(w, "ok")
        log_event_id == Len(w.db.log_events) + 1
    IN  IF answer = "ok"
        THEN [w EXCEPT !.db.log_events = Append(@, [ id |-> log_event_id,
                                                     code |-> code,
                                                     g_session |-> w.ghost.session ]),
                       !.poller.pending_session_log_event_ids =
                           IF link_to_active_session THEN Append(@, log_event_id) ELSE @]
        ELSE w

\* note_poll_error taking a failed tick for an observation that breaks the
\* run of the pending candidate.
NotePollError_DropsCandidate(w, in, error) ==
    LET is_active_session == IsSome(w.machine.active_session_started_at)
        counted == IF is_active_session
                   THEN [w EXCEPT !.poller.error_count_during_session = @ + 1,
                                  !.machine.candidate = None]
                   ELSE [w EXCEPT !.machine.candidate = None]
    IN  PersistLogEvent(counted, in, poller_error_code(error), is_active_session)

\* SessionPoller::note_poll_error
NotePollError(w, in, error) ==
    LET is_active_session == IsSome(w.machine.active_session_started_at)
        counted == IF is_active_session
                   THEN [w EXCEPT !.poller.error_count_during_session = @ + 1]
                   ELSE w
    IN  PersistLogEvent(counted, in, poller_error_code(error), is_active_session)

\* TimestampMs wraps an i64.
MinI64 == 0 - 2^(I64Bits - 1)
MaxI64 == 2^(I64Bits - 1) - 1
I64 == MinI64..MaxI64

\* a - b on i64 where it is not checked for overflow: the difference modulo
\* the width.
WrappingSub(a, b) == ((a - b - MinI64) % 2^I64Bits) + MinI64

\* a - b on i64 overflows.
SubOverflows(a, b) == a - b \notin I64

\* timestamp_to_iso8601: the RFC 3339 text with milliseconds, named by the
\* instant it denotes; an instant chrono cannot represent is written as the
\* Unix epoch.
timestamp_to_iso8601(timestamp) ==
    IF timestamp >= 0 - MaxDateTime /\ timestamp <= MaxDateTime THEN timestamp ELSE 0

\* SessionPoller::build_session_record. A raw payload is named by the tick
\* that fetched it. The g_ fields are
\* history: the session the row was built for, the tick errors seen since
\* its Plugged transition, the tick of that transition (0 without one) and
\* the tick that captured the start snapshot the poller holds (0 for None).
BuildSessionRecord(w, plugged_at, unplugged_at, completion) ==
    [ started_at |-> timestamp_to_iso8601(plugged_at),
      finished_at |-> timestamp_to_iso8601(unplugged_at),
      duration_ms |-> Max(WrappingSub(unplugged_at, plugged_at), 0),
      energy_kwh |-> completion.energy_kwh,
      status |-> completion.status,
      finished_reason |-> completion.finished_reason,
      error_count_during_session |-> w.poller.error_count_during_session,
      raw_report2_start |-> w.poller.start_report2_raw,
      raw_report3_start |-> w.poller.start_report3_raw,
      raw_report2_end |-> Some(completion.report2_end_raw),
      raw_report3_end |-> completion.report3_end_raw,
      g_session |-> w.ghost.session,
      g_plugged_seen |-> w.ghost.plugged_seen,
      g_tick_errors |-> w.ghost.tick_errors,
      g_plugged_tick |-> w.ghost.plugged_tick,
      g_snapshot_tick |-> w.ghost.snapshot_tick ]

\* db::insert_session under with_connection: one INSERT statement. SQLite
\* binds a NaN as NULL, which the NOT NULL column energy_kwh rejects.
InsertSession(w, in, new_session) ==
    LET rejected == new_session.energy_kwh.k = "nan"
        answer == WithConnection(w,
                      IF rejected THEN "other"
                      ELSE StoreAnswer(in.insert, w.insert_asked + 1))
        asked == IF w.lock_poisoned \/ rejected THEN 0 ELSE 1
        session_id == Len(w.db.sessions) + 1
        row == [id |-> session_id] @@ new_session
    IN  [ w |-> IF answer = "ok"
                THEN [w EXCEPT !.insert_answers = Append(@, answer),
                               !.insert_asked = @ + asked,
                               !.db.sessions = Append(@, row)]
                ELSE [w EXCEPT !.insert_answers = Append(@, answer),
                               !.insert_asked = @ + asked],
          answer |-> answer,
          session_id |-> session_id ]

\* INSERT INTO charging_session_log_events without OR IGNORE: a pair that is
\* in the table already violates the primary key and the statement fails.
InsertOrIgnoreLink_PlainInsert(links, row) ==
    IF \E i \in 1..Len(links) : links[i] = row
    THEN [ links |-> links, ok |-> FALSE ]
    ELSE [ links |-> Append(links, row), ok |-> TRUE ]

\* One INSERT OR IGNORE INTO charging_session_log_events: the primary key
\* (session_id, log_event_id) makes the statement a no-op for a pair that is
\* in the table already.
InsertOrIgnoreLink(links, row) ==
    IF \E i \in 1..Len(links) : links[i] = row
    THEN [ links |-> links, ok |-> TRUE ]
    ELSE [ links |-> Append(links, row), ok |-> TRUE ]

\* The for loop of db::link_session_log_events over the first `todo` ids,
\* each statement committed on its own; the loop ends at the first
\* statement that fails.
RECURSIVE ExecuteLinks(_, _, _, _)
ExecuteLinks(links, session_id, log_event_ids, todo) ==
    LET Next1(before) ==
            IF ~before.ok THEN before
            ELSE InsertOrIgnoreLink(before.links, << session_id, log_event_ids[todo] >>)
    IN  IF todo = 0
        THEN [ links |-> links, ok |-> TRUE ]
        ELSE Next1(ExecuteLinks(links, session_id, log_event_ids, todo - 1))

\* db::link_session_log_events under with_connection: nothing to do for an
\* empty list; otherwise one INSERT OR IGNORE per id, outside any
\* transaction, so a failing call keeps the rows of the statements that ran
\* before the failing one.
LinkSessionLogEvents(w, in, session_id, log_event_ids) ==
    LET store == WithConnection(w,
                     IF log_event_ids = << >> THEN "ok"
                     ELSE StoreAnswer(in.link, w.link_asked + 1))
        done == IF store = "ok" THEN Len(log_event_ids)
                ELSE IF store = "poisoned" THEN 0
                ELSE IF in.link_done < Len(log_event_ids) THEN in.link_done
                ELSE Len(log_event_ids) - 1
        asked == IF w.lock_poisoned \/ log_event_ids = << >> THEN 0 ELSE 1
        Executed(executed, answer) ==
            [ w |-> [w EXCEPT !.link_answers = Append(@, answer),
                              !.link_asked = @ + asked,
                              !.link_failed = @ \/ (asked = 1 /\ store # "ok"),
                              !.link_ids = Len(log_event_ids),
                              !.db.links = executed.links],
              answer |-> answer ]
        Statements(executed) ==
            Executed(executed, IF executed.ok THEN store ELSE "other")
    IN  Statements(ExecuteLinks(w.db.links, session_id, log_event_ids, done))

\* The insert loop of persist_session_and_finalize.
RECURSIVE InsertLoop(_, _, _, _)
InsertLoop(w, in, new_session, insert_attempt) ==
    LET Match(r) ==
            IF r.answer = "ok"
            THEN [ w |-> r.w, result |-> "ok", session_id |-> r.session_id ]
            ELSE IF is_retryable_db_contention(r.answer)
                    /\ insert_attempt < SESSION_PERSIST_MAX_RETRIES
            THEN InsertLoop(r.w, in, new_session, insert_attempt + 1)
            ELSE [ w |-> r.w, result |-> service_error_to_poller_error(r.answer),
                   session_id |-> 0 ]
    IN  Match(InsertSession(w, in, new_session))

\* A link loop that gives up at the first busy or locked answer.
LinkLoop_NoRetry(w, in, session_id, link_attempt) ==
    LET Match(r) ==
            IF r.answer = "ok"
            THEN [ w |-> r.w, result |-> "ok" ]
            ELSE [ w |-> r.w, result |-> service_error_to_poller_error(r.answer) ]
    IN  Match(LinkSessionLogEvents(w, in, session_id,
                                   w.poller.pending_session_log_event_ids))

\* The link loop of persist_session_and_finalize.
RECURSIVE LinkLoop(_, _, _, _)
LinkLoop(w, in, session_id, link_attempt) ==
    LET Match(r) ==
            IF r.answer = "ok"
            THEN [ w |-> r.w, result |-> "ok" ]
            ELSE IF is_retryable_db_contention(r.answer)
                    /\ link_attempt < SESSION_PERSIST_MAX_RETRIES
            THEN LinkLoop(r.w, in, session_id, link_attempt + 1)
            ELSE [ w |-> r.w, result |-> service_error_to_poller_error(r.answer) ]
    IN  Match(LinkSessionLogEvents(w, in, session_id,
                                   w.poller.pending_session_log_event_ids))

\* persist_session_and_finalize inserting the row a second time.
PersistSessionAndFinalize_InsertsTwice(w, in, new_session) ==
    LET Linked(linked) ==
            IF linked.result # "ok"
            THEN [ w |-> linked.w, result |-> linked.result ]
            ELSE [ w |-> [linked.w EXCEPT
                             !.poller.start_snapshot = None, !.ghost.snapshot_tick = 0,
                             !.poller.start_report2_raw = None,
                             !.poller.start_report3_raw = None,
                             !.poller.error_count_during_session = 0,
                             !.poller.pending_session_log_event_ids = << >>],
                   result |-> "ok" ]
        Again(inserted) ==
            IF inserted.result # "ok"
            THEN [ w |-> inserted.w, result |-> inserted.result ]
            ELSE Linked(LinkLoop(inserted.w, in, inserted.session_id, 0))
        Inserted(inserted) ==
            IF inserted.result # "ok"
            THEN [ w |-> inserted.w, result |-> inserted.result ]
            ELSE Again(InsertLoop(inserted.w, in, new_session, 0))
    IN  Inserted(InsertLoop(w, in, new_session, 0))

\* persist_session_and_finalize resetting the poller's session fields
\* whatever became of the insert and the link.
PersistSessionAndFinalize_AlwaysResets(w, in, new_session) ==
    LET Reset(r) ==
            [ w |-> [r.w EXCEPT
                        !.poller.start_snapshot = None, !.ghost.snapshot_tick = 0,
                        !.poller.start_report2_raw = None,
                        !.poller.start_report3_raw = None,
                        !.poller.error_count_during_session = 0,
                        !.poller.pending_session_log_event_ids = << >>],
              result |-> r.result ]
        Inserted(inserted) ==
            IF inserted.result # "ok"
            THEN Reset([ w |-> inserted.w, result |-> inserted.result ])
            ELSE Reset(LinkLoop(inserted.w, in, inserted.session_id, 0))
    IN  Inserted(InsertLoop(w, in, new_session, 0))

\* SessionPoller::persist_session_and_finalize: the poller's session fields
\* are reset only after both the insert and the link have succeeded.
PersistSessionAndFinalize(w, in, new_session) ==
    LET Linked(linked) ==
            IF linked.result # "ok"
            THEN [ w |-> linked.w, result |-> linked.result ]
            ELSE [ w |-> [linked.w EXCEPT
                             !.poller.start_snapshot = None, !.ghost.snapshot_tick = 0,
                             !.poller.start_report2_raw = None,
                             !.poller.start_report3_raw = None,
                             !.poller.error_count_during_session = 0,
                             !.poller.pending_session_log_event_ids = << >>],
                   result |-> "ok" ]
        Inserted(inserted) ==
            IF inserted.result # "ok"
            THEN [ w |-> inserted.w, result |-> inserted.result ]
            ELSE Linked(LinkLoop(inserted.w, in, inserted.session_id, 0))
    IN  Inserted(InsertLoop(w, in, new_session, 0))

\* parse_report2: the payload must be a JSON object with a plug field.
ParseReport2(payload) ==
    IF ~payload.is_object THEN [ok |-> FALSE, plugged |-> FALSE]
    ELSE IF IsNone(payload.plug) THEN [ok |-> FALSE, plugged |-> FALSE]
    ELSE [ok |-> TRUE, plugged |-> Unwrap(payload.plug)]

\* parse_report3: the payload must be a JSON object with at least one of the
\* two energy fields.
ParseReport3(payload) ==
    IF ~payload.is_object THEN [ok |-> FALSE, snapshot |-> EnergySnapshot(None, None)]
    ELSE IF IsNone(payload.present) /\ IsNone(payload.total)
    THEN [ok |-> FALSE, snapshot |-> EnergySnapshot(None, None)]
    ELSE [ok |-> TRUE, snapshot |-> EnergySnapshot(payload.present, payload.total)]

\* extract_observed_at: the payload's __tsMs, if it is an object carrying one.
ExtractObservedAt(payload) == IF payload.is_object THEN payload.ts ELSE None

\* A handle_plugged that keeps the staging list and the error counter when
\* the session starts.
HandlePlugged_KeepsStaged(w, in, plugged_at, report2_raw) ==
    IF IsNone(in.report3)
    THEN PersistLogEvent(
             [w EXCEPT !.report3_calls = @ + 1,
                       !.poller.start_snapshot = None, !.ghost.snapshot_tick = 0,
                       !.poller.error_count_during_session = @ + 1],
             in, "poll.fetch_report3_on_plugged", TRUE)
    ELSE LET report3 == ParseReport3(Unwrap(in.report3))
         IN  IF ~report3.ok
             THEN PersistLogEvent(
                      [w EXCEPT !.report3_calls = @ + 1,
                                !.poller.start_snapshot = None, !.ghost.snapshot_tick = 0,
                                !.poller.error_count_during_session = @ + 1],
                      in, "poll.parse_report3_on_plugged", TRUE)
             ELSE [w EXCEPT !.report3_calls = @ + 1,
                            !.poller.start_report2_raw = Some(report2_raw),
                            !.poller.start_report3_raw = Some(w.now),
                            !.poller.start_snapshot = Some(report3.snapshot),
                            !.ghost.snapshot_tick = w.now]

\* SessionPoller::handle_plugged
HandlePlugged(w, in, plugged_at, report2_raw) ==
    IF IsNone(in.report3)
    THEN PersistLogEvent(
             [w EXCEPT !.report3_calls = @ + 1,
                       !.poller.start_snapshot = None, !.ghost.snapshot_tick = 0,
                       !.poller.error_count_during_session = @ + 1],
             in, "poll.fetch_report3_on_plugged", TRUE)
    ELSE LET report3 == ParseReport3(Unwrap(in.report3))
         IN  IF ~report3.ok
             THEN PersistLogEvent(
                      [w EXCEPT !.report3_calls = @ + 1,
                                !.poller.start_snapshot = None, !.ghost.snapshot_tick = 0,
                                !.poller.error_count_during_session = @ + 1],
                      in, "poll.parse_report3_on_plugged", TRUE)
             ELSE [w EXCEPT !.report3_calls = @ + 1,
                            !.poller.start_report2_raw = Some(report2_raw),
                            !.poller.start_report3_raw = Some(w.now),
                            !.poller.error_count_during_session = 0,
                            !.poller.pending_session_log_event_ids = << >>,
                            !.poller.start_snapshot = Some(report3.snapshot),
                            !.ghost.snapshot_tick = w.now]

\* A SessionCompletion that stores the plug report in place of a missing
\* energy report.
SessionCompletion_FillsReport3(energy_kwh, status, finished_reason, report2_end_raw, report3_end_raw) ==
    [ energy_kwh |-> energy_kwh, status |-> status, finished_reason |-> finished_reason,
      report2_end_raw |-> report2_end_raw,
      report3_end_raw |-> IF IsNone(report3_end_raw) THEN Some(report2_end_raw)
                          ELSE report3_end_raw ]

\* struct SessionCompletion
SessionCompletion(energy_kwh, status, finished_reason, report2_end_raw, report3_end_raw) ==
    [ energy_kwh |-> energy_kwh, status |-> status, finished_reason |-> finished_reason,
      report2_end_raw |-> report2_end_raw, report3_end_raw |-> report3_end_raw ]

\* EnergyOutcome taking a clamped energy for a completed session.
EnergyOutcome_IgnoresWarnings(energy) ==
    IF energy.ok
    THEN [ log |-> None, energy_kwh |-> energy.kwh,
           status |-> "completed", finished_reason |-> "plug_state_transition" ]
    ELSE [ log |-> Some("poll.compute_energy_on_unplugged"), energy_kwh |-> Fin(0),
           status |-> "invalid", finished_reason |-> "energy_compute_failed" ]

\* The match on the energy result in handle_unplugged: the log event it
\* records, if any, and (energy_kwh, status, finished_reason).
EnergyOutcome(energy) ==
    IF energy.ok /\ energy.warnings = << >>
    THEN [ log |-> None, energy_kwh |-> energy.kwh,
           status |-> "completed", finished_reason |-> "plug_state_transition" ]
    ELSE IF energy.ok
    THEN [ log |-> Some("poll.energy_warning"), energy_kwh |-> energy.kwh,
           status |-> "invalid", finished_reason |-> "energy_clamped" ]
    ELSE [ log |-> Some("poll.compute_energy_on_unplugged"), energy_kwh |-> Fin(0),
           status |-> "invalid", finished_reason |-> "energy_compute_failed" ]

\* append_session_result: read the array, push one entry, write it back.
AppendSessionResult(w, in, new_session, duration_ms) ==
    IF in.results_ok
    THEN [ w |-> [w EXCEPT !.results_calls = @ + 1,
                           !.results_file = Append(@, [ from |-> new_session.started_at,
                                                        to |-> new_session.finished_at,
                                                        duration_ms |-> duration_ms,
                                                        kwh |-> new_session.energy_kwh ])],
           result |-> "ok" ]
    ELSE [ w |-> [w EXCEPT !.results_calls = @ + 1], result |-> "ResultsIo" ]

\* SessionPoller::handle_unplugged
HandleUnplugged(w, in, plugged_at, unplugged_at, report2_raw) ==
    LET Persist(logged, completion) ==
            PersistSessionAndFinalize(logged, in,
                BuildSessionRecord(logged, plugged_at, unplugged_at, completion))
        Appended(persisted, new_session) ==
            IF persisted.result # "ok"
            THEN persisted
            ELSE IF persisted.w.poller.results_output_file
            THEN AppendSessionResult(persisted.w, in, new_session,
                                     Max(WrappingSub(unplugged_at, plugged_at), 0))
            ELSE persisted
        PersistAndAppend(logged, new_session) ==
            Appended(PersistSessionAndFinalize(logged, in, new_session), new_session)
        Logged(logged, outcome) ==
            PersistAndAppend(logged,
                BuildSessionRecord(logged, plugged_at, unplugged_at,
                    SessionCompletion(outcome.energy_kwh, outcome.status,
                                      outcome.finished_reason, report2_raw, Some(w.now))))
        Computed(w0, outcome) ==
            Logged(IF IsSome(outcome.log)
                   THEN PersistLogEvent(w0, in, Unwrap(outcome.log), TRUE)
                   ELSE w0,
                   outcome)
        Fetched(w0) ==
            IF IsNone(in.report3)
            THEN Persist(PersistLogEvent(w0, in, "poll.fetch_report3_on_unplugged", TRUE),
                         SessionCompletion(Fin(0), "aborted", "report3_fetch_failed",
                                           report2_raw, None))
            ELSE IF ~ParseReport3(Unwrap(in.report3)).ok
            THEN Persist(PersistLogEvent(w0, in, "poll.parse_report3_on_unplugged", TRUE),
                         SessionCompletion(Fin(0), "invalid", "report3_parse_failed",
                                           report2_raw, Some(w.now)))
            ELSE Computed(w0, EnergyOutcome(
                     compute_session_kwh(w0.poller.start_snapshot,
                                         ParseReport3(Unwrap(in.report3)).snapshot)))
    IN  Fetched([w EXCEPT !.report3_calls = @ + 1])

\* History kept at a transition: a Plugged transition opens the next session;
\* an Unplugged transition without one (the agent started while a car was
\* plugged, which the debouncer adopts without a transition) opens the
\* session it closes.
GhostAtTransition(g, transition, tick) ==
    IF transition.kind = "Plugged"
    THEN [g EXCEPT !.session = g.next_session, !.next_session = @ + 1,
                   !.plugged_seen = TRUE, !.tick_errors = 0,
                   !.plugged_tick = tick]
    ELSE IF g.session = 0
    THEN [g EXCEPT !.session = g.next_session, !.next_session = @ + 1,
                   !.plugged_seen = FALSE, !.tick_errors = 0,
                   !.unplugged_transitions = @ + 1,
                   !.plugged_tick = 0]
    ELSE [g EXCEPT !.unplugged_transitions = @ + 1]

\* SessionPoller::tick
Tick(w, in) ==
    LET Unplug(r) == [ w |-> [r.w EXCEPT !.ghost.session = 0], result |-> r.result ]
        Handle(w2, transition) ==
            IF transition.kind = "Plugged"
            THEN [ w |-> HandlePlugged(w2, in, transition.plugged_at, w.now),
                   result |-> "ok" ]
            ELSE Unplug(HandleUnplugged(w2, in, transition.plugged_at,
                                        transition.unplugged_at, w.now))
        Observed(observed) ==
            IF IsNone(observed.transition)
            THEN [ w |-> [w EXCEPT !.machine = observed.machine], result |-> "ok" ]
            ELSE Handle([w EXCEPT !.machine = observed.machine,
                                  !.ghost = GhostAtTransition(
                                                @, Unwrap(observed.transition), w.now),
                                  !.transition = Unwrap(observed.transition).kind],
                        Unwrap(observed.transition))
        Parsed(report2, report2_raw) ==
            IF ~report2.ok
            THEN [ w |-> w, result |-> "ParseReport2" ]
            ELSE Observed(IF IsSome(ExtractObservedAt(report2_raw))
                          THEN ObserveAt(w.machine, report2.plugged,
                                         Unwrap(ExtractObservedAt(report2_raw)))
                          ELSE Observe(w.machine, report2.plugged, w.now))
    IN  IF IsNone(in.report2)
        THEN [ w |-> w, result |-> "FetchReport2" ]
        ELSE Parsed(ParseReport2(Unwrap(in.report2)), Unwrap(in.report2))

\* A poll loop that ends on the first failing tick.
AfterTick_ExitOnError(result) == IF result = "ok" THEN "running" ELSE "exited"

\* start_poller: whatever the tick returned, the thread sleeps and evaluates
\* the loop condition again.
AfterTick(result) == "running"

\* The body of the while loop of start_poller: tick, and note_poll_error on
\* an error.
LoopBody(w, in) ==
    LET Ticked(r) ==
            IF r.result = "ok"
            THEN [ w |-> r.w, result |-> r.result, thread |-> AfterTick(r.result) ]
            ELSE [ w |-> NotePollError(
                            [r.w EXCEPT !.ghost.tick_errors =
                                           IF r.w.ghost.session # 0 THEN @ + 1 ELSE @],
                            in, r.result),
                   result |-> r.result,
                   thread |-> AfterTick(r.result) ]
    IN  Ticked(Tick(w, in))

\* The ghost of a debouncer that has observed nothing.
NoRun == [plugged |-> FALSE, len |-> 0, first_at |-> 0, last_at |-> 0]

\* The ghost of a debouncer m that has observed nothing: no run before the
\* trailing one.
NoFlap(m) ==
    [ before_run |-> m, prev |-> [plugged |-> FALSE, len |-> 0], before_prev |-> m,
      prev_emitted |-> FALSE, run_emitted |-> FALSE ]

EnergyIdle == e_start = None /\ e_end = None /\ e_result = None

(***************************************************************************)
(* Spec: the thread of start_poller running SessionPoller::tick against    *)
(* the store, with every answer the charger and the store can give.        *)
(***************************************************************************)
MaxTicks == 4    \* loop iterations
MaxFaults == 3   \* failing answers of the charger, the store and the file system

\* SessionPoller::new (the configuration fields source, poll_interval_ms and
\* station_id are left out; debounce_samples lives in the machine).
NewPoller(results_output_file) ==
    [ start_snapshot |-> None,
      start_report2_raw |-> None,
      start_report3_raw |-> None,
      error_count_during_session |-> 0,
      pending_session_log_event_ids |-> << >>,
      results_output_file |-> results_output_file ]

EmptyDb == [ sessions |-> << >>, log_events |-> << >>, links |-> << >> ]

NoGhost == [ session |-> 0, next_session |-> 1, plugged_seen |-> FALSE,
             tick_errors |-> 0, unplugged_transitions |-> 0,
             plugged_tick |-> 0, snapshot_tick |-> 0 ]

\* The configured debounce_samples.
DebounceSamples == {0, 1, 2}

HappyScript == [ contended |-> 0, contention |-> "busy", final |-> "ok" ]

\* What the store may answer to the attempts of one operation: up to
\* MAX_RETRIES + 1 contention errors, then success or another error.
Scripts ==
    { [ contended |-> 0, contention |-> "busy", final |-> f ] : f \in {"ok", "other"} }
    \cup { [ contended |-> k, contention |-> c, final |-> f ] :
             k \in 1..SESSION_PERSIST_MAX_RETRIES, c \in {"busy", "locked"},
             f \in {"ok", "other"} }
    \cup { [ contended |-> SESSION_PERSIST_MAX_RETRIES + 1, contention |-> c,
             final |-> "ok" ] : c \in {"busy", "locked"} }

\* The store scripts without contention: the operation succeeds or fails
\* with an error that is neither busy nor locked.
PlainScripts == { script \in Scripts : script.contended = 0 }

\* Plug reports that parse, without a __tsMs and with one that agrees with
\* the agent's clock, and the two kinds that do not parse.
GoodReport2(clock_now) ==
    { [ is_object |-> TRUE, plug |-> Some(b), ts |-> t ] :
        b \in BOOLEAN, t \in {None, Some(clock_now)} }
BadReport2 == { [ is_object |-> FALSE, plug |-> None, ts |-> None ],
                [ is_object |-> TRUE, plug |-> None, ts |-> None ] }

\* Energy reports: not an object, an object with neither field, or an object
\* with one of the two fields.
Report3Payloads ==
    { [ is_object |-> FALSE, present |-> None, total |-> None ],
      [ is_object |-> TRUE, present |-> None, total |-> None ] }
    \cup { [ is_object |-> TRUE, present |-> Some(Fin(n)), total |-> None ] : n \in 0..1 }
    \cup { [ is_object |-> TRUE, present |-> None, total |-> Some(Fin(n)) ] : n \in 0..1 }
Report3Answers == {None} \cup { Some(pl) : pl \in Report3Payloads }
GoodReport3Answers == { Some(pl) : pl \in { p \in Report3Payloads : ParseReport3(p).ok } }

NoInput == [ report2 |-> None, report3 |-> None, insert |-> HappyScript,
             link |-> HappyScript, link_done |-> 0, results_ok |-> TRUE ]

Count(b) == IF b THEN 1 ELSE 0

Report2Faulty(r) == IsNone(r) \/ ~ParseReport2(Unwrap(r)).ok
Report3Faulty(r) == IsNone(r) \/ ~ParseReport3(Unwrap(r)).ok

\* The failing answers an input holds; a missing energy report is one only
\* if the iteration asked for it.
FaultsOf(in, report3_calls) ==
    Count(Report2Faulty(in.report2))
    + Count(report3_calls > 0 /\ Report3Faulty(in.report3))
    + Count(in.insert # HappyScript) + Count(in.link # HappyScript)
    + Count(~in.results_ok)

\* A script of which `asked` answers were taken holds no answer beyond them.
ScriptTaken(script, asked) ==
    IF asked = 0 THEN script = HappyScript
    ELSE /\ script.contended <= asked
         /\ ~(script.contended = asked /\ script.final # "ok")

\* The input holds nothing the iteration did not ask for, so every
\* behaviour of an iteration is produced by one input only.
Canonical(in, w) ==
    /\ w.report3_calls = 0 => in.report3 = None
    /\ ScriptTaken(in.insert, w.insert_asked)
    /\ ScriptTaken(in.link, w.link_asked)
    /\ ~w.link_failed => in.link_done = 0
    /\ w.link_failed => in.link_done < w.link_ids
    /\ w.results_calls = 0 => in.results_ok

World ==
    [ machine |-> machine, poller |-> poller, db |-> db,
      results_file |-> results_file, lock_poisoned |-> lock_poisoned, now |-> now,
      ghost |-> ghost, report3_calls |-> 0, results_calls |-> 0,
      insert_answers |-> << >>, link_answers |-> << >>, insert_asked |-> 0,
      link_asked |-> 0, link_failed |-> FALSE, link_ids |-> 0,
      transition |-> "none" ]

NoLast ==
    [ result |-> "none", transition |-> "none", report3 |-> "none",
      energy |-> None, insert_answers |-> << >>, link_answers |-> << >>,
      inserted |-> 0, linked |-> << >>, logged |-> {}, appended |-> 0 ]

\* What the iteration on input in did, seen from outside: its result and
\* transition, what became of the energy report and of the energy
\* computation, the answers the store gave, the rows that are new.
LastOf(in, r) ==
    LET report3 == IF r.w.report3_calls = 0 THEN "none"
                   ELSE IF IsNone(in.report3) THEN "fetch_err"
                   ELSE IF ~ParseReport3(Unwrap(in.report3)).ok THEN "parse_err"
                   ELSE "ok"
        energy == compute_session_kwh(poller.start_snapshot,
                                      ParseReport3(Unwrap(in.report3)).snapshot)
    IN  [ result |-> r.result,
          transition |-> r.w.transition,
          report3 |-> report3,
          energy |-> IF report3 = "ok" /\ r.w.transition = "Unplugged"
                     THEN Some([ ok |-> energy.ok,
                                 warned |-> energy.ok /\ energy.warnings # << >> ])
                     ELSE None,
          insert_answers |-> r.w.insert_answers,
          link_answers |-> r.w.link_answers,
          inserted |-> Len(r.w.db.sessions) - Len(db.sessions),
          linked |-> SubSeq(r.w.db.links, Len(db.links) + 1, Len(r.w.db.links)),
          logged |-> (Len(db.log_events) + 1)..Len(r.w.db.log_events),
          appended |-> Len(r.w.results_file) - Len(results_file) ]

PollerIdle ==
    /\ poller = NewPoller(FALSE)
    /\ db = EmptyDb
    /\ results_file = << >>
    /\ lock_poisoned = FALSE
    /\ now = 1
    /\ stop_flag = FALSE
    /\ poller_thread = "exited"
    /\ faults = 0
    /\ ghost = NoGhost
    /\ last = NoLast

Init ==
    /\ \E debounce_samples \in DebounceSamples : machine = NewMachine(debounce_samples)
    /\ \E results_output_file \in BOOLEAN : poller = NewPoller(results_output_file)
    /\ db = EmptyDb
    /\ results_file = << >>
    /\ lock_poisoned = FALSE
    /\ now = 1
    /\ stop_flag = FALSE
    /\ poller_thread = "running"
    /\ faults = 0
    /\ ghost = NoGhost
    /\ last = NoLast
    /\ run = NoRun /\ emitted = None /\ stable_before = None /\ calls = 0
    /\ flap = NoFlap(NewMachine(1))
    /\ EnergyIdle
    /\ RestIdle

\* One pass through the while loop of start_poller with the stop flag read
\* as unset, the environment answering as in says.
Iterate(in) ==
    \E r \in {LoopBody(World, in)} :
        /\ Canonical(in, r.w)
        /\ faults + FaultsOf(in, r.w.report3_calls) <= MaxFaults
        /\ machine' = r.w.machine
        /\ poller' = r.w.poller
        /\ db' = r.w.db
        /\ results_file' = r.w.results_file
        /\ ghost' = r.w.ghost
        /\ last' = LastOf(in, r)
        /\ faults' = faults + FaultsOf(in, r.w.report3_calls)
        /\ poller_thread' = r.thread
        /\ now' = now + 1
        /\ UNCHANGED << lock_poisoned, stop_flag >>
        /\ UNCHANGED << run, emitted, stable_before, calls, flap >>
        /\ UNCHANGED energyVars
        /\ UNCHANGED restVars

LoopRuns == poller_thread = "running" /\ ~stop_flag /\ now <= MaxTicks

\* What the debouncer of the poller would return for this plug report.
TransitionFor(report2_raw) ==
    LET observed == IF IsSome(ExtractObservedAt(report2_raw))
                    THEN ObserveAt(machine, Unwrap(report2_raw.plug),
                                   Unwrap(ExtractObservedAt(report2_raw)))
                    ELSE Observe(machine, Unwrap(report2_raw.plug), now)
    IN  IF IsSome(observed.transition) THEN Unwrap(observed.transition).kind ELSE "none"

\* The failing answers still allowed.
Budget == MaxFaults - faults

\* What the iteration asks for on input in.
Asked(in) == LoopBody(World, in).w

\* The plug report cannot be fetched.
TickFetchReport2Fails ==
    /\ LoopRuns
    /\ Iterate(NoInput)

\* The plug report does not parse.
TickParseReport2Fails ==
    /\ LoopRuns
    /\ \E report2_raw \in BadReport2 :
         Iterate([NoInput EXCEPT !.report2 = Some(report2_raw)])

\* The plug report is read and the debouncer returns no transition.
TickNoTransition ==
    /\ LoopRuns
    /\ \E report2_raw \in GoodReport2(now) :
         /\ TransitionFor(report2_raw) = "none"
         /\ Iterate([NoInput EXCEPT !.report2 = Some(report2_raw)])

\* The debouncer returns Plugged: handle_plugged runs, the charger
\* answering the energy request with one of report3s.
TickPluggedWith(report3s) ==
    /\ LoopRuns
    /\ \E report2_raw \in GoodReport2(now) :
         /\ TransitionFor(report2_raw) = "Plugged"
         /\ \E report3 \in report3s :
              Iterate([NoInput EXCEPT !.report2 = Some(report2_raw),
                                      !.report3 = report3])

\* The debouncer returns Unplugged: handle_unplugged runs, the charger
\* answering with one of report3s and the store as one of scripts says. An
\* answer is drawn from the failing ones only where the iteration asks for
\* it and the budget allows it.
TickUnpluggedWith(report3s, scripts) ==
    /\ LoopRuns
    /\ \E report2_raw \in GoodReport2(now) :
         /\ TransitionFor(report2_raw) = "Unplugged"
         /\ \E report3 \in report3s :
            \E in0 \in {[NoInput EXCEPT !.report2 = Some(report2_raw),
                                        !.report3 = report3]} :
            \E insert \in IF Asked(in0).insert_asked > 0
                             /\ Budget - Count(Report3Faulty(report3)) > 0
                          THEN scripts ELSE {HappyScript} :
            \E in1 \in {[in0 EXCEPT !.insert = insert]} :
            \E link \in IF Asked(in1).link_asked > 0
                           /\ Budget - FaultsOf(in1, 1) > 0
                        THEN scripts ELSE {HappyScript} :
            \E link_done \in IF link = HappyScript THEN {0}
                             ELSE 0..Len(poller.pending_session_log_event_ids) :
            \E in2 \in {[in1 EXCEPT !.link = link, !.link_done = link_done]} :
            \E results_ok \in IF Asked(in2).results_calls > 0
                                 /\ Budget - FaultsOf(in2, 1) > 0
                              THEN BOOLEAN ELSE {TRUE} :
                Iterate([in2 EXCEPT !.results_ok = results_ok])

\* In Spec the charger may fail to answer and the store may fail, without
\* contention.
TickPlugged == TickPluggedWith(Report3Answers)
TickUnplugged == TickUnpluggedWith(Report3Answers, PlainScripts)

\* In SpecRetry the charger answers and the store may be contended.
TickPluggedAnswered == TickPluggedWith(GoodReport3Answers)
TickUnpluggedContended == TickUnpluggedWith(GoodReport3Answers, Scripts)

\* A thread panics while it holds the connection mutex: the mutex stays
\* poisoned.
PoisonLock ==
    /\ poller_thread = "running"
    /\ ~lock_poisoned
    /\ faults < MaxFaults
    /\ lock_poisoned' = TRUE
    /\ faults' = faults + 1
    /\ UNCHANGED << machine, poller, db, results_file, now, stop_flag,
                    poller_thread, ghost, last >>
    /\ UNCHANGED << run, emitted, stable_before, calls, flap >>
    /\ UNCHANGED energyVars
    /\ UNCHANGED restVars

Next ==
    \/ TickFetchReport2Fails
    \/ TickParseReport2Fails
    \/ TickNoTransition
    \/ TickPlugged
    \/ TickUnplugged
    \/ PoisonLock

Spec == Init /\ [][Next]_vars

NextRetry ==
    \/ TickNoTransition
    \/ TickPluggedAnswered
    \/ TickUnpluggedContended
    \/ PoisonLock

SpecRetry == Init /\ [][NextRetry]_vars

(***************************************************************************)
(* SpecDebounce: a SessionStateMachine constructed with any debounce       *)
(* setting and fed any sequence of observations through either entry       *)
(* point. run is the trailing run of equal observations, kept from the     *)
(* observation stream alone: its value, its length and the timestamps   *)
(* of its first and its last observation.                                  *)
(***************************************************************************)
ExtendRun(r, plugged_observation, at) ==
    IF r.len > 0 /\ r.plugged = plugged_observation
    THEN [r EXCEPT !.len = @ + 1, !.last_at = at]
    ELSE [plugged |-> plugged_observation, len |-> 1, first_at |-> at, last_at |-> at]

\* The history of runs after an observation: when the observation starts a
\* new run, the trailing run becomes the run before it, with the machine as
\* it was before that run; m is the machine before the call.
ExtendFlap(f, r, m, plugged_observation, transition) ==
    IF r.len > 0 /\ r.plugged = plugged_observation
    THEN [f EXCEPT !.run_emitted = @ \/ IsSome(transition)]
    ELSE [ before_run |-> m, prev |-> [plugged |-> r.plugged, len |-> r.len],
           before_prev |-> f.before_run,
           prev_emitted |-> f.run_emitted, run_emitted |-> IsSome(transition) ]

InitDebounce ==
    /\ \E debounce_samples \in 0..MaxDebounce : machine = NewMachine(debounce_samples)
    /\ flap = NoFlap(machine)
    /\ run = NoRun
    /\ emitted = None
    /\ stable_before = None
    /\ calls = 0
    /\ EnergyIdle
    /\ PollerIdle
    /\ RestIdle

ObserveAtCall ==
    /\ calls < MaxCalls
    /\ \E plugged_observation \in BOOLEAN, observed_at \in Times :
         LET r == ObserveAt(machine, plugged_observation, observed_at)
         IN  /\ machine' = r.machine
             /\ emitted' = r.transition
             /\ run' = ExtendRun(run, plugged_observation, observed_at)
             /\ flap' = ExtendFlap(flap, run, machine, plugged_observation, r.transition)
    /\ stable_before' = machine.stable_plugged
    /\ calls' = calls + 1
    /\ UNCHANGED energyVars
    /\ UNCHANGED pollerVars
    /\ UNCHANGED restVars

ObserveCall ==
    /\ calls < MaxCalls
    /\ \E plugged_observation \in BOOLEAN, clock_now \in Times :
         LET r == Observe(machine, plugged_observation, clock_now)
         IN  /\ machine' = r.machine
             /\ emitted' = r.transition
             /\ run' = ExtendRun(run, plugged_observation, clock_now)
             /\ flap' = ExtendFlap(flap, run, machine, plugged_observation, r.transition)
    /\ stable_before' = machine.stable_plugged
    /\ calls' = calls + 1
    /\ UNCHANGED energyVars
    /\ UNCHANGED pollerVars
    /\ UNCHANGED restVars

NextDebounce == ObserveAtCall \/ ObserveCall

SpecDebounce == InitDebounce /\ [][NextDebounce]_vars

(***************************************************************************)
(* SpecEnergy: compute_session_kwh called once on any pair of snapshots.   *)
(* A reading is what parse_f64 can return: a finite number, or an          *)
(* infinity when the digits of a text value overflow f64.                  *)
(***************************************************************************)
Readings == {Fin(n) : n \in (0 - MaxEnergy)..MaxEnergy} \cup {PosInf, NegInf}
OptionalReadings == {None} \cup {Some(x) : x \in Readings}
Snapshots == {EnergySnapshot(p, t) : p \in OptionalReadings, t \in OptionalReadings}

InitEnergy ==
    /\ e_start \in {None} \cup {Some(s) : s \in Snapshots}
    /\ e_end \in {Some(s) : s \in Snapshots}
    /\ e_result = None
    /\ run = NoRun /\ emitted = None /\ stable_before = None /\ calls = 0
    /\ flap = NoFlap(NewMachine(1))
    /\ machine = NewMachine(1)
    /\ PollerIdle
    /\ RestIdle

ComputeCall ==
    /\ IsNone(e_result)
    /\ e_result' = Some(compute_session_kwh(e_start, Unwrap(e_end)))
    /\ UNCHANGED << e_start, e_end >>
    /\ UNCHANGED debounceVars
    /\ UNCHANGED pollerVars
    /\ UNCHANGED restVars

NextEnergy == ComputeCall

SpecEnergy == InitEnergy /\ [][NextEnergy]_vars

(***************************************************************************)
(* SpecMutex: the threads of run_combined calling the commands and the     *)
(* queries of one SqliteSessionService, every call going through           *)
(* with_connection.                                                        *)
(***************************************************************************)
MaxOps == 2   \* with_connection calls per thread

\* A debouncer that is not observed.
DebounceIdle ==
    /\ machine = NewMachine(1)
    /\ run = NoRun /\ emitted = None /\ stable_before = None /\ calls = 0
    /\ flap = NoFlap(NewMachine(1))

\* A Mutex that hands itself to every caller.
MutexFree_Always(m) == TRUE

\* std::sync::Mutex::lock returns only while no guard is alive.
MutexFree(m) == IsNone(m.holder)

InitMutex ==
    /\ LaterIdle
    /\ MutexIdle
    /\ link_call = None
    /\ MigrateIdle
    /\ DurationIdle
    /\ DebounceIdle
    /\ EnergyIdle
    /\ PollerIdle

\* A thread calls a command or a query: with_connection is entered.
CallWithConnection(t) ==
    /\ thread_pc[t] = "idle"
    /\ ops_done[t] < MaxOps
    /\ thread_pc' = [thread_pc EXCEPT ![t] = "lock"]
    /\ UNCHANGED << mutex, ops_done >>
    /\ UNCHANGED << debounceVars, energyVars, pollerVars, link_call, migrateVars,
                    duration, laterVars >>

\* self.connection.lock() returns. On a poisoned mutex it returns the
\* PoisonError, which map_err drops together with the guard it carries:
\* with_connection returns DbLockPoisoned without running op.
Lock(t) ==
    /\ thread_pc[t] = "lock"
    /\ MutexFree(mutex)
    /\ IF mutex.poisoned
       THEN /\ thread_pc' = [thread_pc EXCEPT ![t] = "idle"]
            /\ ops_done' = [ops_done EXCEPT ![t] = @ + 1]
            /\ UNCHANGED mutex
       ELSE /\ thread_pc' = [thread_pc EXCEPT ![t] = "op"]
            /\ mutex' = [mutex EXCEPT !.holder = Some(t)]
            /\ UNCHANGED ops_done
    /\ UNCHANGED << debounceVars, energyVars, pollerVars, link_call, migrateVars,
                    duration, laterVars >>

\* op(&connection) returns, with Ok or with a DbError; the guard goes out
\* of scope.
OpReturns(t) ==
    /\ thread_pc[t] = "op"
    /\ thread_pc' = [thread_pc EXCEPT ![t] = "idle"]
    /\ ops_done' = [ops_done EXCEPT ![t] = @ + 1]
    /\ mutex' = [mutex EXCEPT !.holder = None]
    /\ UNCHANGED << debounceVars, energyVars, pollerVars, link_call, migrateVars,
                    duration, laterVars >>

\* op(&connection) panics: unwinding drops the guard, which poisons the
\* mutex.
OpPanics(t) ==
    /\ thread_pc[t] = "op"
    /\ thread_pc' = [thread_pc EXCEPT ![t] = "panicked"]
    /\ mutex' = [holder |-> None, poisoned |-> TRUE]
    /\ UNCHANGED ops_done
    /\ UNCHANGED << debounceVars, energyVars, pollerVars, link_call, migrateVars,
                    duration, laterVars >>

NextMutex ==
    \E t \in Threads :
        \/ CallWithConnection(t)
        \/ Lock(t)
        \/ OpReturns(t)
        \/ OpPanics(t)

SpecMutex == InitMutex /\ [][NextMutex]_vars

(***************************************************************************)
(* SpecLink: link_session_log_events called again and again on a store     *)
(* that holds two sessions and two log events, with any arguments and any  *)
(* answer of the store.                                                    *)
(***************************************************************************)
MaxLinkCalls == 3   \* calls of link_session_log_events

\* The rows the links of SpecLink refer to.
StoredSession(id) ==
    [id |-> id] @@
    BuildSessionRecord([poller |-> NewPoller(FALSE), ghost |-> NoGhost], 0, 1,
        SessionCompletion(Fin(0), "completed", "plug_state_transition", 1, Some(1)))
StoredLogEvent(id) == [ id |-> id, code |-> "poll.fetch_report2", g_session |-> 0 ]

\* The log_event_ids argument: up to two ids, possibly the same one twice.
LinkIdLists ==
    { << >> } \cup { << a >> : a \in 1..2 } \cup { << a, b >> : a \in 1..2, b \in 1..2 }

\* What the store answers to one call: at once, or after one contention.
OneCallScripts == { script \in Scripts : script.contended <= 1 }

InitLink ==
    /\ link_call = None
    /\ LaterIdle
    /\ MutexIdle
    /\ MigrateIdle
    /\ DurationIdle
    /\ DebounceIdle
    /\ EnergyIdle
    /\ poller = NewPoller(FALSE)
    /\ db = [ sessions |-> << StoredSession(1), StoredSession(2) >>,
              log_events |-> << StoredLogEvent(1), StoredLogEvent(2) >>,
              links |-> << >> ]
    /\ results_file = << >>
    /\ lock_poisoned = FALSE
    /\ now = 1
    /\ stop_flag = FALSE
    /\ poller_thread = "exited"
    /\ faults = 0
    /\ ghost = NoGhost
    /\ last = NoLast

\* SqliteSessionService::link_session_log_events is called. The store
\* answers script's first answer; after link_done statements if it is an
\* error.
LinkCall ==
    /\ IF link_call = None THEN TRUE ELSE Unwrap(link_call).calls < MaxLinkCalls
    /\ \E session_id \in 1..2, log_event_ids \in LinkIdLists, script \in OneCallScripts :
       \E link_done \in IF StoreAnswer(script, 1) = "ok" \/ log_event_ids = << >>
                        THEN {0} ELSE 0..(Len(log_event_ids) - 1) :
       \E r \in { LinkSessionLogEvents(
                      World, [NoInput EXCEPT !.link = script, !.link_done = link_done],
                      session_id, log_event_ids) } :
          /\ ScriptTaken(script, r.w.link_asked)
          /\ db' = r.w.db
          /\ link_call' = Some(
                 [ session_id |-> session_id,
                   log_event_ids |-> log_event_ids,
                   before |-> db.links,
                   store |-> IF log_event_ids = << >> THEN "ok"
                             ELSE StoreAnswer(script, 1),
                   answer |-> r.answer,
                   retry |-> /\ link_call # None
                             /\ Unwrap(link_call).session_id = session_id
                             /\ Unwrap(link_call).log_event_ids = log_event_ids
                             /\ Unwrap(link_call).answer \in {"busy", "locked"},
                   calls |-> IF link_call = None THEN 1
                             ELSE Unwrap(link_call).calls + 1 ])
    /\ UNCHANGED << poller, results_file, lock_poisoned, now, stop_flag,
                    poller_thread, faults, ghost, last >>
    /\ UNCHANGED << debounceVars, energyVars, mutexVars, migrateVars, duration, laterVars >>

NextLink == LinkCall

SpecLink == InitLink /\ [][NextLink]_vars

(***************************************************************************)
(* SpecMigrate: run_migrations called again and again on a database file   *)
(* of any schema version, with any number of rows in its tables, and with  *)
(* a failure at any point of the run.                                      *)
(***************************************************************************)
MaxRows == 2   \* rows a table holds before the first run
MaxRuns == 3   \* calls of run_migrations

LATEST_SCHEMA_VERSION == 5

\* The versions of MIGRATIONS, in the order of the list.
MIGRATIONS == << 1, 2, 3, 4, 5 >>

TableNames == { "sessions", "charging_sessions", "log_events",
                "charging_session_log_events" }

\* The tables of a database: for each name, the number of rows, if the table
\* is there.
NoTables == [ name \in TableNames |-> None ]

\* CREATE TABLE IF NOT EXISTS name.
CreateTableIfNotExists(tables, name) ==
    IF IsNone(tables[name]) THEN [tables EXCEPT ![name] = Some(0)] ELSE tables

\* A script reads the tables in names: it fails when one of them is missing.
Missing(tables, names) == \E name \in names : IsNone(tables[name])

\* Step 1: the table sessions.
Migration1(view) == [ view |-> [view EXCEPT !.tables =
                                    CreateTableIfNotExists(@, "sessions")],
                      ok |-> TRUE ]

\* Step 2: charging_sessions takes the rows of sessions, sessions is dropped.
Migration2(view) ==
    LET Copy(created) ==
            IF Missing(created, {"sessions"})
            THEN [ view |-> view, ok |-> FALSE ]
            ELSE [ view |-> [view EXCEPT !.tables =
                       [created EXCEPT
                           !["charging_sessions"] =
                               Some(Unwrap(@) + Unwrap(created["sessions"])),
                           !["sessions"] = None]],
                   ok |-> TRUE ]
    IN Copy(CreateTableIfNotExists(view.tables, "charging_sessions"))

\* Step 3: the tables log_events and charging_session_log_events.
Migration3(view) ==
    [ view |-> [view EXCEPT !.tables =
          CreateTableIfNotExists(
              CreateTableIfNotExists(@, "log_events"),
              "charging_session_log_events")],
      ok |-> TRUE ]

\* Step 4: the three tables are copied row by row into tables with text
\* ids, dropped (the link table first), and the copies take their names.
Migration4(view) ==
    IF Missing(view.tables, { "charging_sessions", "log_events",
                              "charging_session_log_events" })
    THEN [ view |-> view, ok |-> FALSE ]
    ELSE [ view |-> view, ok |-> TRUE ]

\* Step 5: charging_sessions is copied into a table with an optional
\* started_at, dropped, and the copy takes its name. With foreign keys
\* enforced, DROP TABLE first deletes the rows of charging_sessions, and
\* ON DELETE CASCADE deletes the rows of charging_session_log_events.
Migration5(view) ==
    IF Missing(view.tables, { "charging_sessions" })
    THEN [ view |-> view, ok |-> FALSE ]
    ELSE [ view |-> [view EXCEPT !.tables["charging_session_log_events"] =
                        IF view.foreign_keys /\ IsSome(@) THEN Some(0) ELSE @],
           ok |-> TRUE ]

\* transaction.execute_batch(sql) for the script of one version.
ExecuteBatch(version, view) ==
    CASE version = 1 -> Migration1(view)
      [] version = 2 -> Migration2(view)
      [] version = 3 -> Migration3(view)
      [] version = 4 -> Migration4(view)
      [] version = 5 -> Migration5(view)

\* transaction.pragma_update(None, "user_version", version)
PragmaUpdateUserVersion(view, version) == [view EXCEPT !.user_version = version]

\* schema_version: PRAGMA user_version
schema_version_Zero(file) == 0
schema_version(file) == file.user_version

\* `*version > current_version`
Pending_NotBefore(version, current_version) == version >= current_version
Pending(version, current_version) == version > current_version

\* `current_version > LATEST_SCHEMA_VERSION`
Unsupported_Never(current_version) == FALSE
Unsupported(current_version) == current_version > LATEST_SCHEMA_VERSION

\* The transaction is dropped without a commit: it is rolled back.
Rollback_KeepsChanges(file, view) == view
Rollback(file, view) == file

\* Where a run can fail: nowhere, in connection.transaction(), in the
\* execute_batch or the pragma_update of one version, or in commit().
NoFailure == [ stage |-> "none", version |-> 0 ]
Failures ==
    { NoFailure, [ stage |-> "transaction", version |-> 0 ],
      [ stage |-> "commit", version |-> 0 ] }
    \cup [ stage : { "execute_batch", "pragma_update" },
           version : 1..LATEST_SCHEMA_VERSION ]

\* The loop of run_migrations over the first todo entries of MIGRATIONS.
\* view is what the transaction sees, applied the versions whose script and
\* pragma_update ran, versions the user_version after each of them.
RECURSIVE ApplyMigrations(_, _, _, _)
ApplyMigrations(file, current_version, fail, todo) ==
    LET version == MIGRATIONS[todo]
        Updated(before, view) ==
            IF fail = [ stage |-> "pragma_update", version |-> version ]
            THEN [before EXCEPT !.view = view, !.ok = FALSE]
            ELSE [ view |-> PragmaUpdateUserVersion(view, version),
                   applied |-> Append(before.applied, version),
                   versions |-> Append(before.versions, version),
                   ok |-> TRUE ]
        Executed(before, batch) ==
            IF ~batch.ok
            THEN [before EXCEPT !.ok = FALSE]
            ELSE Updated(before, batch.view)
        Step(before) ==
            IF ~before.ok \/ ~Pending(version, current_version)
            THEN before
            ELSE IF fail = [ stage |-> "execute_batch", version |-> version ]
                 THEN [before EXCEPT !.ok = FALSE]
                 ELSE Executed(before, ExecuteBatch(version, before.view))
    IN IF todo = 0
       THEN [ view |-> file, applied |-> << >>, versions |-> << >>, ok |-> TRUE ]
       ELSE Step(ApplyMigrations(file, current_version, fail, todo - 1))

\* run_migrations: the file it leaves, its result, and what it did.
RunMigrations(file, fail) ==
    LET Outcome(after, result, steps) ==
            [ file |-> after, result |-> result,
              applied |-> steps.applied, versions |-> steps.versions ]
        NoSteps == [ applied |-> << >>, versions |-> << >> ]
        Commit(steps) ==
            IF ~steps.ok \/ fail.stage = "commit"
            THEN Outcome(Rollback(file, steps.view), "sqlite", steps)
            ELSE Outcome(steps.view, "ok", steps)
        From(current_version) ==
            IF Unsupported(current_version)
            THEN Outcome(file, "unsupported_schema_version", NoSteps)
            ELSE IF fail.stage = "transaction"
                 THEN Outcome(file, "sqlite", NoSteps)
                 ELSE Commit(ApplyMigrations(file, current_version, fail,
                                             Len(MIGRATIONS)))
    IN From(schema_version(file))

\* The tables a database of version v has, with the given numbers of rows.
TablesAt(v, sessions, log_events, links) ==
    CASE v = 0 -> NoTables
      [] v = 1 -> [NoTables EXCEPT !["sessions"] = Some(sessions)]
      [] v = 2 -> [NoTables EXCEPT !["charging_sessions"] = Some(sessions)]
      [] OTHER -> [NoTables EXCEPT
                      !["charging_sessions"] = Some(sessions),
                      !["log_events"] = Some(log_events),
                      !["charging_session_log_events"] = Some(links)]

\* The database files a run can start from: one of a version up to the one
\* after the latest, left by the migration list up to that version; a link
\* row needs its session and its log event.
Files ==
    { [ user_version |-> v, foreign_keys |-> fk,
        tables |-> TablesAt(v, sessions, log_events, links) ] :
      v \in 0..(LATEST_SCHEMA_VERSION + 1), fk \in BOOLEAN,
      sessions \in 0..MaxRows, log_events \in 0..MaxRows, links \in 0..MaxRows }
FileIsWellFormed(file) ==
    LET rows(name) == UnwrapOr(file.tables[name], 0)
    IN rows("charging_session_log_events")
           <= rows("charging_sessions") * rows("log_events")

InitMigrate ==
    /\ DurationIdle
    /\ disk \in { file \in Files : FileIsWellFormed(file) }
    /\ migration = [ runs |-> 0, last |-> None ]
    /\ LaterIdle
    /\ MutexIdle
    /\ link_call = None
    /\ DebounceIdle
    /\ EnergyIdle
    /\ PollerIdle

\* run_migrations is called on the file.
RunMigrationsCall ==
    /\ migration.runs < MaxRuns
    /\ \E fail \in Failures :
       \E r \in { RunMigrations(disk, fail) } :
          /\ disk' = r.file
          /\ migration' =
                 [ runs |-> migration.runs + 1,
                   last |-> Some(
                       [ start |-> disk,
                         result |-> r.result,
                         applied |-> r.applied,
                         versions |-> r.versions,
                         fail |-> fail,
                         after_ok |-> /\ migration.last # None
                                      /\ Unwrap(migration.last).result = "ok" ]) ]
    /\ UNCHANGED << debounceVars, energyVars, pollerVars, mutexVars, link_call,
                    duration, laterVars >>

NextMigrate == RunMigrationsCall

SpecMigrate == InitMigrate /\ [][NextMigrate]_vars

(***************************************************************************)
(* SpecDuration: a debouncer fed observations stamped by the charger's     *)
(* reports (any i64) or by the clock, and build_session_record called on   *)
(* every Unplugged transition, in a build with or without overflow checks. *)
(***************************************************************************)

\* What handle_unplugged builds for an Unplugged transition: the record, or
\* none when the subtraction panics.
Built(overflow_checks, transition) ==
    [ plugged_at |-> transition.plugged_at,
      unplugged_at |-> transition.unplugged_at,
      record |->
          IF overflow_checks /\ SubOverflows(transition.unplugged_at, transition.plugged_at)
          THEN None
          ELSE Some(BuildSessionRecord(
                   [poller |-> NewPoller(FALSE), ghost |-> NoGhost],
                   transition.plugged_at, transition.unplugged_at,
                   SessionCompletion(Fin(0), "completed", "plug_state_transition",
                                     1, Some(1)))) ]

\* The poller thread is alive: no tick has panicked.
Alive == IF IsNone(duration.built) THEN TRUE ELSE IsSome(Unwrap(duration.built).record)

InitDuration ==
    /\ \E debounce_samples \in 1..2 : machine = NewMachine(debounce_samples)
    /\ duration \in [ overflow_checks : BOOLEAN, built : { None } ]
    /\ run = NoRun
    /\ emitted = None
    /\ stable_before = None
    /\ calls = 0
    /\ flap = NoFlap(NewMachine(1))
    /\ EnergyIdle
    /\ PollerIdle
    /\ LaterIdle
    /\ MutexIdle
    /\ link_call = None
    /\ MigrateIdle

\* The part of tick from the observation to the session record.
ObservedForDuration(observed) ==
    /\ machine' = observed.machine
    /\ duration' = [duration EXCEPT !.built =
           IF IsSome(observed.transition) /\ Unwrap(observed.transition).kind = "Unplugged"
           THEN Some(Built(duration.overflow_checks, Unwrap(observed.transition)))
           ELSE None]
    /\ UNCHANGED << run, emitted, stable_before, calls, flap >>
    /\ UNCHANGED << energyVars, pollerVars, mutexVars, link_call, migrateVars, laterVars >>

\* A tick whose plug report carries __tsMs.
TickWithReportTime ==
    /\ Alive
    /\ \E plugged_observation \in BOOLEAN, observed_at \in I64 :
         ObservedForDuration(ObserveAt(machine, plugged_observation, observed_at))

\* A tick whose plug report carries no __tsMs: the clock stamps it.
TickWithClockTime ==
    /\ Alive
    /\ \E plugged_observation \in BOOLEAN, clock_now \in Times :
         ObservedForDuration(Observe(machine, plugged_observation, clock_now))

NextDuration == TickWithReportTime \/ TickWithClockTime

SpecDuration == InitDuration /\ [][NextDuration]_vars

(***************************************************************************)
(* The HTTP surface over the store the poller writes (adapters/api.rs,     *)
(* app/services.rs, the queries of adapters/db.rs).  The handlers run on   *)
(* the connection of the poller in combined mode.  created_at is the clock *)
(* at insertion, so ORDER BY created_at DESC is newest insertion first and *)
(* a threshold on created_at cuts off a number of oldest rows.             *)
(***************************************************************************)
Min(a, b) == IF a <= b THEN a ELSE b

NewestFirst(rows) == [ i \in 1..Len(rows) |-> rows[Len(rows) + 1 - i] ]

\* SELECT ... LIMIT limit OFFSET offset over the ordered rows.
LimitOffset(rows, limit, offset) ==
    SubSeq(rows, offset + 1, Min(Len(rows), offset + limit))

\* db::get_latest_session
get_latest_session(store) ==
    IF store.sessions = << >> THEN None
    ELSE Some(NewestFirst(store.sessions)[1])

\* db::get_latest_session_since: older is the number of rows created
\* before since_inclusive.
get_latest_session_since(store, older) ==
    IF Len(store.sessions) <= older THEN None
    ELSE Some(NewestFirst(store.sessions)[1])

\* db::list_sessions
list_sessions(store, limit, offset) == LimitOffset(NewestFirst(store.sessions), limit, offset)

\* db::count_sessions
count_sessions(store) == Len(store.sessions)

\* db::count_log_events
count_log_events(store) == Len(store.log_events)

\* db::list_recent_log_events
list_recent_log_events(store, limit) == LimitOffset(NewestFirst(store.log_events), limit, 0)

\* SqliteSessionService's query methods: with_connection around the query;
\* answer is what the store says to the statement.
Query(poisoned, answer, value) ==
    IF poisoned THEN [ ok |-> FALSE, error |-> "DbLockPoisoned" ]
    ELSE IF answer # "ok" THEN [ ok |-> FALSE, error |-> "Database" ]
    ELSE [ ok |-> TRUE, value |-> value ]

\* service_error_response
service_error_response(error) ==
    [ status |-> 500,
      body |-> IF error = "DbLockPoisoned" THEN "database lock poisoned"
               ELSE "database query failed" ]

\* struct SessionResponse
SessionResponse(session) ==
    [ id |-> session.id, started_at |-> session.started_at,
      finished_at |-> session.finished_at, duration_ms |-> session.duration_ms,
      kwh |-> session.energy_kwh ]

\* struct DiagnosticsSessionSummary
DiagnosticsSessionSummary(session) ==
    [ id |-> session.id, status |-> session.status,
      finished_reason |-> session.finished_reason,
      started_at |-> session.started_at, finished_at |-> session.finished_at,
      duration_ms |-> session.duration_ms, kwh |-> session.energy_kwh,
      error_count_during_session |-> session.error_count_during_session ]

\* The limit parameter of /sessions and /diagnostics/log-events.
ClampLimit(limit) == Max(1, Min(UnwrapOr(limit, 50), 500))

\* GET /health
health == [ status |-> 200, body |-> "ok" ]

\* GET /sessions/latest
get_latest_session_endpoint(store, poisoned, answer) ==
    LET Match(r) ==
            IF ~r.ok THEN service_error_response(r.error)
            ELSE IF IsNone(r.value) THEN [ status |-> 404, body |-> "no sessions available" ]
            ELSE [ status |-> 200, body |-> SessionResponse(Unwrap(r.value)) ]
    IN  Match(Query(poisoned, answer, get_latest_session(store)))

\* GET /sessions
list_sessions_endpoint(store, poisoned, answer, limit, offset) ==
    LET Match(r) ==
            IF ~r.ok THEN service_error_response(r.error)
            ELSE [ status |-> 200,
                   body |-> [ i \in 1..Len(r.value) |-> SessionResponse(r.value[i]) ] ]
    IN  Match(Query(poisoned, answer,
                    list_sessions(store, ClampLimit(limit), UnwrapOr(offset, 0))))

\* GET /sessions/recent
get_recent_session_endpoint(store, poisoned, answer, older) ==
    LET Match(r) ==
            IF ~r.ok THEN service_error_response(r.error)
            ELSE IF IsNone(r.value) THEN [ status |-> 204, body |-> "" ]
            ELSE [ status |-> 200, body |-> SessionResponse(Unwrap(r.value)) ]
    IN  Match(Query(poisoned, answer, get_latest_session_since(store, older)))

\* GET /diagnostics/db: four queries, the first error ends the handler.
get_db_diagnostics_endpoint(store, file, poisoned, answer) ==
    LET schema == Query(poisoned, "ok", schema_version(file))
        sessions == Query(poisoned, "ok", count_sessions(store))
        log_events == Query(poisoned, "ok", count_log_events(store))
        latest == Query(poisoned, answer, get_latest_session(store))
    IN  IF ~schema.ok THEN service_error_response(schema.error)
        ELSE IF ~sessions.ok THEN service_error_response(sessions.error)
        ELSE IF ~log_events.ok THEN service_error_response(log_events.error)
        ELSE IF ~latest.ok THEN service_error_response(latest.error)
        ELSE [ status |-> 200,
               body |-> [ schema_version |-> schema.value,
                          sessions_count |-> sessions.value,
                          log_events_count |-> log_events.value,
                          latest_session |->
                              IF IsNone(latest.value) THEN None
                              ELSE Some(DiagnosticsSessionSummary(Unwrap(latest.value))) ] ]

\* GET /diagnostics/log-events
list_log_events_diagnostics_endpoint(store, poisoned, answer, limit) ==
    LET Match(r) ==
            IF ~r.ok THEN service_error_response(r.error)
            ELSE [ status |-> 200, body |-> r.value ]
    IN  Match(Query(poisoned, answer, list_recent_log_events(store, ClampLimit(limit))))

MaxStoreTicks == 3

QueryLimits == { None, Some(0) }
QueryOffsets == { None, Some(1) }

\* The requests: a route with the query parameters its handler reads; older
\* is the number of rows created more than five minutes before the request.
Requests ==
    [ endpoint : { "/health", "/sessions/latest", "/diagnostics/db" },
      limit : { None }, offset : { None }, older : { 0 } ]
    \cup [ endpoint : { "/sessions" }, limit : QueryLimits, offset : QueryOffsets,
           older : { 0 } ]
    \cup [ endpoint : { "/sessions/recent" }, limit : { None }, offset : { None },
           older : 0..1 ]
    \cup [ endpoint : { "/diagnostics/log-events" }, limit : QueryLimits,
           offset : { None }, older : { 0 } ]

\* configure_routes: the handler of each route.
Route(request, store, poisoned, answer) ==
    CASE request.endpoint = "/health" -> health
      [] request.endpoint = "/sessions/latest" ->
             get_latest_session_endpoint(store, poisoned, answer)
      [] request.endpoint = "/sessions" ->
             list_sessions_endpoint(store, poisoned, answer, request.limit, request.offset)
      [] request.endpoint = "/sessions/recent" ->
             get_recent_session_endpoint(store, poisoned, answer, request.older)
      [] request.endpoint = "/diagnostics/db" ->
             get_db_diagnostics_endpoint(store, [ user_version |-> LATEST_SCHEMA_VERSION ],
                                         poisoned, answer)
      [] request.endpoint = "/diagnostics/log-events" ->
             list_log_events_diagnostics_endpoint(store, poisoned, answer, request.limit)

\* The HTTP server answers a request while the poller runs.  The handlers
\* only read: nothing but the response changes.
HttpRequest ==
    /\ poller_thread = "running"
    /\ \E request \in Requests, answer \in { "ok", "other" } :
         http' = Some([ endpoint |-> request.endpoint,
                        response |-> Route(request, db, lock_poisoned, answer) ])
    /\ UNCHANGED << debounceVars, energyVars, pollerVars, mutexVars, link_call,
                    migrateVars, duration, combined, replay, api >>

\* Combined mode without a results file.
InitStore ==
    /\ \E debounce_samples \in DebounceSamples : machine = NewMachine(debounce_samples)
    /\ poller = NewPoller(FALSE)
    /\ db = EmptyDb
    /\ results_file = << >>
    /\ lock_poisoned = FALSE
    /\ now = 1
    /\ stop_flag = FALSE
    /\ poller_thread = "running"
    /\ faults = 0
    /\ ghost = NoGhost
    /\ last = NoLast
    /\ run = NoRun /\ emitted = None /\ stable_before = None /\ calls = 0
    /\ flap = NoFlap(NewMachine(1))
    /\ EnergyIdle
    /\ RestIdle

\* The iterations of the poll loop the requests are interleaved with.
StoreRuns == now <= MaxStoreTicks

NextStore ==
    \/ StoreRuns /\ TickFetchReport2Fails
    \/ StoreRuns /\ TickParseReport2Fails
    \/ StoreRuns /\ TickNoTransition
    \/ StoreRuns /\ TickPlugged
    \/ StoreRuns /\ TickUnplugged
    \/ StoreRuns /\ PoisonLock
    \/ HttpRequest

SpecStore == InitStore /\ [][NextStore]_vars

(***************************************************************************)
(* run_combined: the main thread runs the HTTP server, stores the stop     *)
(* flag when the server has exited and joins the poller thread; the poller *)
(* thread runs the while loop of start_poller.  The load of the flag reads *)
(* the value last stored.                                                  *)
(***************************************************************************)
MaxCombinedTicks == 2

\* A poll loop that never looks at the flag.
WhileCondition_Ignored(stop) == TRUE

\* while !stop_flag.load(Ordering::Relaxed)
WhileCondition(stop) == ~stop

\* join() of a thread that panicked is an Err, which run_combined returns as
\* a runtime error whatever the server returned.
JoinedResult_ServerResult(thread, server_result) == server_result

\* The result of run_combined once the poller thread is joined.
JoinedResult(thread, server_result) ==
    IF thread = "panicked" THEN "runtime: poller thread panicked" ELSE server_result

\* What the charger and the store may answer to an iteration of the
\* combined run: every plug report, an energy report that is missing or
\* good, a store that answers, is busy once, or fails.
CombinedScripts ==
    { HappyScript,
      [ contended |-> 1, contention |-> "busy", final |-> "ok" ],
      [ contended |-> 0, contention |-> "busy", final |-> "other" ] }

CombinedInputs ==
    { in \in [ report2 : { None } \cup { Some(p) : p \in BadReport2 \cup GoodReport2(now) },
               report3 : { None } \cup { Some([ is_object |-> TRUE, present |-> Some(Fin(n)),
                                                total |-> None ]) : n \in 0..1 },
               insert : CombinedScripts, link : CombinedScripts,
               link_done : { 0 }, results_ok : { TRUE } ] :
        Canonical(in, LoopBody(World, in).w) }

InitCombined ==
    /\ machine = NewMachine(1)
    /\ poller = NewPoller(FALSE)
    /\ db = EmptyDb
    /\ results_file = << >>
    /\ lock_poisoned = FALSE
    /\ now = 1
    /\ stop_flag = FALSE
    /\ poller_thread = "running"
    /\ faults = 0
    /\ ghost = NoGhost
    /\ last = NoLast
    /\ run = NoRun /\ emitted = None /\ stable_before = None /\ calls = 0
    /\ flap = NoFlap(NewMachine(1))
    /\ EnergyIdle
    /\ MutexIdle /\ link_call = None /\ MigrateIdle /\ DurationIdle
    /\ http = None /\ replay = None /\ api = None
    /\ combined = [ main |-> "serving", server_result |-> None, result |-> None,
                    pc |-> "check", stored_at |-> "none", started_after_stop |-> FALSE,
                    ticks_after_stop |-> 0 ]

combinedFrame == << run, emitted, stable_before, calls, flap, energyVars, mutexVars,
                    link_call, migrateVars, duration, http, replay, api >>
tickFrame == << machine, poller, db, results_file, lock_poisoned, now, faults, ghost,
                last >>

\* The poller thread evaluates the loop condition: it enters the body or
\* leaves the loop, and the thread ends.
LoopCheck ==
    /\ poller_thread = "running"
    /\ combined.pc = "check"
    /\ stop_flag \/ now <= MaxCombinedTicks
    /\ IF WhileCondition(stop_flag)
       THEN /\ combined' = [combined EXCEPT !.pc = "tick",
                                            !.started_after_stop = @ \/ stop_flag]
            /\ UNCHANGED poller_thread
       ELSE /\ combined' = [combined EXCEPT !.pc = "done"]
            /\ poller_thread' = "exited"
    /\ UNCHANGED << stop_flag, tickFrame, combinedFrame >>

\* The body of the loop: tick and note_poll_error run to their end, whatever
\* the flag is by now.
CombinedTick ==
    /\ poller_thread = "running"
    /\ combined.pc = "tick"
    /\ \E in \in CombinedInputs :
       \E r \in { LoopBody(World, in) } :
          /\ faults + FaultsOf(in, r.w.report3_calls) <= MaxFaults
          /\ machine' = r.w.machine
          /\ poller' = r.w.poller
          /\ db' = r.w.db
          /\ results_file' = r.w.results_file
          /\ ghost' = r.w.ghost
          /\ last' = LastOf(in, r)
          /\ faults' = faults + FaultsOf(in, r.w.report3_calls)
          /\ poller_thread' = r.thread
          /\ now' = now + 1
    /\ combined' = [combined EXCEPT !.pc = "sleep",
                                    !.ticks_after_stop =
                                        IF stop_flag THEN Min(@ + 1, 2) ELSE @]
    /\ UNCHANGED << lock_poisoned, stop_flag, combinedFrame >>

\* The poller thread panics inside the body of the loop.
PollerPanics ==
    /\ poller_thread = "running"
    /\ combined.pc = "tick"
    /\ poller_thread' = "panicked"
    /\ combined' = [combined EXCEPT !.pc = "done"]
    /\ UNCHANGED << stop_flag, tickFrame, combinedFrame >>

\* std::thread::sleep(poll_interval) returns.
Sleep ==
    /\ poller_thread = "running"
    /\ combined.pc = "sleep"
    /\ combined' = [combined EXCEPT !.pc = "check"]
    /\ UNCHANGED << stop_flag, poller_thread, tickFrame, combinedFrame >>

\* run_http_server returns, with Ok or with an error.
ServerExits ==
    /\ combined.main = "serving"
    /\ \E server_result \in { "ok", "runtime: server" } :
         combined' = [combined EXCEPT !.main = "stopping",
                                      !.server_result = Some(server_result)]
    /\ UNCHANGED << stop_flag, poller_thread, tickFrame, combinedFrame >>

\* stop_flag.store(true, Ordering::Relaxed)
StoreStop ==
    /\ combined.main = "stopping"
    /\ stop_flag' = TRUE
    /\ combined' = [combined EXCEPT !.main = "joining", !.stored_at = combined.pc]
    /\ UNCHANGED << poller_thread, tickFrame, combinedFrame >>

\* poller_handle.join() returns once the thread has ended; run_combined
\* returns.
Join ==
    /\ combined.main = "joining"
    /\ poller_thread \in { "exited", "panicked" }
    /\ combined' = [combined EXCEPT
                       !.main = "returned",
                       !.result = Some(JoinedResult(poller_thread,
                                                    Unwrap(combined.server_result)))]
    /\ UNCHANGED << stop_flag, poller_thread, tickFrame, combinedFrame >>

PollerStep == LoopCheck \/ CombinedTick \/ Sleep
MainStep == StoreStop \/ Join

NextCombined ==
    \/ LoopCheck
    \/ CombinedTick
    \/ PollerPanics
    \/ Sleep
    \/ ServerExits
    \/ StoreStop
    \/ Join

SpecCombined == InitCombined /\ [][NextCombined]_vars

\* Both threads are scheduled: the poller thread takes its next step, the
\* main thread stores the flag and returns from join.  Nothing makes the
\* server exit or the poller panic.
SpecCombinedFair ==
    /\ InitCombined
    /\ [][NextCombined]_vars
    /\ WF_vars(PollerStep)
    /\ WF_vars(MainStep)

(***************************************************************************)
(* The debug-file client (adapters/keba_debug_file.rs): a script of        *)
(* report 2 events and of report 3 events, replayed through one cursor per *)
(* kind.                                                                   *)
(***************************************************************************)
MaxScript2 == 3
MaxScript3 == 2
MaxReplayCalls == 4

\* struct ScriptEvent
ScriptEvent(ok, error) == [ ok |-> ok, error |-> error ]

\* KebaDebugFileClient::from_file: both lists hold at least one event, the
\* cursors start at 0.
NewReplayClient(loop_forever, report2, report3) ==
    [ script |-> [ loop_forever |-> loop_forever, report2 |-> report2,
                   report3 |-> report3 ],
      state |-> [ report2_idx |-> 0, report3_idx |-> 0 ] ]

\* next_event with one cursor for both kinds.
next_event_SharedCursor(client, for_report2) ==
    LET events == IF for_report2 THEN client.script.report2 ELSE client.script.report3
        idx == client.state.report2_idx
        wrapped == IF idx >= Len(events) /\ client.script.loop_forever THEN 0 ELSE idx
    IN  IF idx >= Len(events) /\ ~client.script.loop_forever
        THEN [ client |-> client, ok |-> FALSE, error |-> "UnexpectedEof" ]
        ELSE IF wrapped >= Len(events)
        THEN [ client |-> [client EXCEPT !.state.report2_idx = wrapped],
               ok |-> FALSE, error |-> "InvalidData" ]
        ELSE [ client |-> [client EXCEPT !.state.report2_idx = wrapped + 1],
               ok |-> TRUE, event |-> events[wrapped + 1] ]

\* KebaDebugFileClient::next_event: the event under the cursor of the kind
\* asked for (the cursor counts from 0, the sequences from 1), and the
\* cursor moved on; at the end the cursor goes back to 0 when the script
\* loops, and the call fails with UnexpectedEof when it does not.
next_event(client, for_report2) ==
    LET events == IF for_report2 THEN client.script.report2 ELSE client.script.report3
        idx == IF for_report2 THEN client.state.report2_idx ELSE client.state.report3_idx
        wrapped == IF idx >= Len(events) /\ client.script.loop_forever THEN 0 ELSE idx
        Moved(to) == IF for_report2 THEN [client EXCEPT !.state.report2_idx = to]
                     ELSE [client EXCEPT !.state.report3_idx = to]
    IN  IF idx >= Len(events) /\ ~client.script.loop_forever
        THEN [ client |-> client, ok |-> FALSE, error |-> "UnexpectedEof" ]
        ELSE IF wrapped >= Len(events)
        THEN [ client |-> Moved(wrapped), ok |-> FALSE, error |-> "InvalidData" ]
        ELSE [ client |-> Moved(wrapped + 1), ok |-> TRUE, event |-> events[wrapped + 1] ]

\* map_script_error: the io::ErrorKind (or Json) of a scripted error.
map_script_error(kind) ==
    CASE kind = "timeout" -> "TimedOut"
      [] kind \in { "network_unreachable", "internet_down" } -> "NetworkUnreachable"
      [] kind \in { "host_unreachable", "wallbox_unreachable" } -> "HostUnreachable"
      [] kind = "connection_refused" -> "ConnectionRefused"
      [] kind = "broken_pipe" -> "BrokenPipe"
      [] kind = "invalid_json" -> "Json"
      [] OTHER -> "InvalidInput"

\* KebaDebugFileClient::execute_event
execute_event(event) ==
    IF IsSome(event.ok) /\ IsNone(event.error)
    THEN [ ok |-> TRUE, payload |-> Unwrap(event.ok) ]
    ELSE IF IsNone(event.ok) /\ IsSome(event.error)
    THEN [ ok |-> FALSE, error |-> map_script_error(Unwrap(event.error)) ]
    ELSE [ ok |-> FALSE, error |-> "InvalidData" ]

\* get_report2 and get_report3 of the debug-file client: the client after
\* the call and what the call returned.
get_report(client, for_report2) ==
    LET Match(next) ==
            IF ~next.ok
            THEN [ client |-> next.client, ok |-> FALSE, error |-> next.error ]
            ELSE [ client |-> next.client ] @@ execute_event(next.event)
    IN  Match(next_event(client, for_report2))

\* The events of the scripts: plug reports of a plugged and of an unplugged
\* car, energy reports, a scripted error, an event with neither field.
Report2Events ==
    { ScriptEvent(Some([ is_object |-> TRUE, plug |-> Some(b), ts |-> None ]), None) :
        b \in BOOLEAN }
    \cup { ScriptEvent(None, Some("timeout")) }
Report3Events ==
    { ScriptEvent(Some([ is_object |-> TRUE, present |-> Some(Fin(1)), total |-> None ]),
                  None),
      ScriptEvent(None, Some("unexpected_eof")) }

\* The sequences over S of length 1..n.
SeqsUpTo(S, n) == UNION { [ 1..k -> S ] : k \in 1..n }

ReplayClients ==
    { NewReplayClient(loop_forever, report2, report3) :
        loop_forever \in BOOLEAN,
        report2 \in SeqsUpTo(Report2Events, MaxScript2),
        report3 \in SeqsUpTo(Report3Events, MaxScript3) }

replayFrame == << debounceVars, energyVars, pollerVars, mutexVars, link_call,
                  migrateVars, duration, http, combined, api >>

\* A client read from a script file; nothing has been asked of it.
InitReplayClient ==
    /\ \E client \in ReplayClients :
         replay = [ client |-> client,
                    calls |-> [ report2 |-> 0, report3 |-> 0 ],
                    for_report2 |-> TRUE,
                    returned |-> None ]
    /\ DebounceIdle
    /\ EnergyIdle
    /\ PollerIdle
    /\ MutexIdle /\ link_call = None /\ MigrateIdle /\ DurationIdle
    /\ http = None /\ combined = None /\ api = None

\* get_report2 or get_report3 is called on the client.
GetReportCall(for_report2) ==
    /\ replay.calls.report2 + replay.calls.report3 < MaxReplayCalls
    /\ \E r \in { get_report(replay.client, for_report2) } :
         replay' = [ client |-> r.client,
                     calls |-> IF for_report2
                               THEN [replay.calls EXCEPT !.report2 = @ + 1]
                               ELSE [replay.calls EXCEPT !.report3 = @ + 1],
                     for_report2 |-> for_report2,
                     returned |-> Some([ f \in DOMAIN r \ { "client" } |-> r[f] ]) ]
    /\ UNCHANGED replayFrame

GetReport2Call == GetReportCall(TRUE)
GetReport3Call == GetReportCall(FALSE)

NextReplayClient == GetReport2Call \/ GetReport3Call

SpecReplayClient == InitReplayClient /\ [][NextReplayClient]_vars

(***************************************************************************)
(* run_debug_replay_loop: the poller ticks on the debug-file client until  *)
(* the plug-report script is exhausted.  The loop runs on the thread that  *)
(* called run_service or run_combined, before any other thread exists.     *)
(***************************************************************************)
MaxReplayTicks == 4

\* A replay loop that ends on any failed plug-report fetch.
is_debug_replay_finished_AnyFetchError(error, fetch_error) == error = "FetchReport2"

\* is_debug_replay_finished: the tick returned FetchReport2 carrying an
\* io::Error of kind UnexpectedEof.
is_debug_replay_finished(error, fetch_error) ==
    error = "FetchReport2" /\ fetch_error = "UnexpectedEof"

\* The body of the loop of run_debug_replay_loop: tick; Ok and every error
\* but the finishing one sleep and go on, the latter through
\* note_poll_error.
ReplayBody(w, in, fetch_error) ==
    LET Ticked(r) ==
            IF r.result = "ok"
            THEN [ w |-> r.w, result |-> r.result, finished |-> FALSE ]
            ELSE IF is_debug_replay_finished(r.result, fetch_error)
            THEN [ w |-> r.w, result |-> r.result, finished |-> TRUE ]
            ELSE [ w |-> NotePollError(
                            [r.w EXCEPT !.ghost.tick_errors =
                                           IF r.w.ghost.session # 0 THEN @ + 1 ELSE @],
                            in, r.result),
                   result |-> r.result,
                   finished |-> FALSE ]
    IN  Ticked(Tick(w, in))

\* What a get_report call returned, as the tick sees it.
Fetched(r) == IF r.ok THEN Some(r.payload) ELSE None
FetchError(r) == IF r.ok THEN "none" ELSE r.error

InitReplay ==
    /\ \E client \in ReplayClients :
         replay = [ client |-> client, pc |-> "loop", result |-> None,
                    fetch2 |-> "none", fetch3 |-> "none" ]
    /\ machine = NewMachine(1)
    /\ poller = NewPoller(FALSE)
    /\ db = EmptyDb
    /\ results_file = << >>
    /\ lock_poisoned = FALSE
    /\ now = 1
    /\ stop_flag = FALSE
    /\ poller_thread = "running"
    /\ faults = 0
    /\ ghost = NoGhost
    /\ last = NoLast
    /\ run = NoRun /\ emitted = None /\ stable_before = None /\ calls = 0
    /\ flap = NoFlap(NewMachine(1))
    /\ EnergyIdle
    /\ MutexIdle /\ link_call = None /\ MigrateIdle /\ DurationIdle
    /\ http = None /\ combined = None /\ api = None

\* The loop has not returned (a looping script is cut off after
\* MaxReplayTicks passes).
ReplayRuns ==
    /\ replay.pc = "loop"
    /\ replay.client.script.loop_forever => now <= MaxReplayTicks

\* One pass of the loop: the client answers the tick's get_report2 and, if
\* the tick asks for it, its get_report3; the store accepts the session
\* insert or fails it.
ReplayTick ==
    /\ ReplayRuns
    /\ \E r2 \in { get_report(replay.client, TRUE) } :
       \E r3 \in { get_report(r2.client, FALSE) } :
       \E insert \in PlainScripts :
       \E in \in { [NoInput EXCEPT !.report2 = Fetched(r2),
                                   !.report3 = Fetched(r3),
                                   !.insert = insert] } :
       \E r \in { ReplayBody(World, in, FetchError(r2)) } :
          /\ ScriptTaken(in.insert, r.w.insert_asked)
          /\ faults + Count(in.insert # HappyScript) <= MaxFaults
          /\ machine' = r.w.machine
          /\ poller' = r.w.poller
          /\ db' = r.w.db
          /\ results_file' = r.w.results_file
          /\ ghost' = r.w.ghost
          /\ last' = LastOf([in EXCEPT !.report3 = IF r.w.report3_calls = 0 THEN None
                                                   ELSE @], r)
          /\ faults' = faults + Count(in.insert # HappyScript)
          /\ now' = now + 1
          /\ poller_thread' = IF r.finished THEN "exited" ELSE "running"
          /\ replay' = [ client |-> IF r.w.report3_calls > 0 THEN r3.client ELSE r2.client,
                         pc |-> IF r.finished THEN "returned" ELSE "loop",
                         result |-> IF r.finished THEN Some("ok") ELSE None,
                         fetch2 |-> FetchError(r2),
                         fetch3 |-> IF r.w.report3_calls > 0
                                    THEN IF r3.ok THEN "ok" ELSE r3.error
                                    ELSE "none" ]
    /\ UNCHANGED << lock_poisoned, stop_flag >>
    /\ UNCHANGED << run, emitted, stable_before, calls, flap, energyVars, mutexVars,
                    link_call, migrateVars, duration, http, combined, api >>

NextReplay == ReplayTick

SpecReplay == InitReplay /\ [][NextReplay]_vars

\* The loop's next pass: a pass is the only step that advances the clock,
\* and while the loop runs a pass is always possible (the store may accept
\* every insert).
NextPass == ReplayRuns /\ now' = now + 1

\* The thread of the loop runs: while the loop has not returned, its next
\* pass is eventually made.
SpecReplayFair == InitReplay /\ [][NextReplay]_vars /\ WF_now(NextPass)

(***************************************************************************)
(* run_api: the read-only runtime.  It opens the database file read-only,  *)
(* refuses a file whose schema was never initialised, and serves HTTP.     *)
(* A writer service may have run its migrations on the file before.        *)
(***************************************************************************)
NotInitialized ==
    "database_init: database schema is not initialized; start writer service first"
DatabaseInitErrors == { NotInitialized, "database_init: sqlite" }

\* What can fail while the reader is opened: Connection::open_with_flags,
\* the reader's pragmas, or the query of user_version.
OpenFaults == { "none", "open", "pragmas", "schema_version" }

\* open_shared_connection_reader: the connection it returns, or its error,
\* and the file it leaves.
open_shared_connection_reader_AnyVersion(file, fault) ==
    IF fault # "none"
    THEN [ ok |-> FALSE, error |-> "database_init: sqlite", connection |-> None,
           file |-> file ]
    ELSE [ ok |-> TRUE, error |-> "none",
           connection |-> Some([ query_only |-> TRUE,
                                 version |-> schema_version(file) ]),
           file |-> file ]
open_shared_connection_reader(file, fault) ==
    IF fault # "none"
    THEN [ ok |-> FALSE, error |-> "database_init: sqlite", connection |-> None,
           file |-> file ]
    ELSE IF schema_version(file) = 0
         THEN [ ok |-> FALSE, error |-> NotInitialized, connection |-> None,
                file |-> file ]
         ELSE [ ok |-> TRUE, error |-> "none",
                connection |-> Some([ query_only |-> TRUE,
                                      version |-> schema_version(file) ]),
                file |-> file ]

NewApi == [ pc |-> "start", fault |-> "none", reader |-> None,
            server |-> "not_started", result |-> None ]

InitApi ==
    /\ DurationIdle
    /\ disk \in { file \in Files : FileIsWellFormed(file) }
    /\ migration = [ runs |-> 0, last |-> None ]
    /\ http = None /\ combined = None /\ replay = None
    /\ api = NewApi
    /\ MutexIdle
    /\ link_call = None
    /\ DebounceIdle
    /\ EnergyIdle
    /\ PollerIdle

apiFrame == << debounceVars, energyVars, pollerVars, mutexVars, link_call,
               duration, http, combined, replay >>

\* A writer service runs its migrations on the file before the api runtime
\* is started.
WriterMigrates ==
    /\ api.pc = "start"
    /\ RunMigrationsCall

\* run_api up to the server serving: the reader is opened, and with a
\* reader run_http_server binds and runs the server.
RunApi ==
    /\ api.pc = "start"
    /\ \E fault \in OpenFaults, bind_fails \in BOOLEAN :
       \E r \in { open_shared_connection_reader(disk, fault) } :
          /\ ~r.ok => ~bind_fails
          /\ disk' = r.file
          /\ api' = IF ~r.ok
                    THEN [ pc |-> "returned", fault |-> fault, reader |-> None,
                           server |-> "not_started", result |-> Some(r.error) ]
                    ELSE IF bind_fails
                    THEN [ pc |-> "returned", fault |-> fault,
                           reader |-> r.connection, server |-> "not_started",
                           result |-> Some("runtime: bind") ]
                    ELSE [ pc |-> "serving", fault |-> fault,
                           reader |-> r.connection, server |-> "running",
                           result |-> None ]
    /\ UNCHANGED << migration, apiFrame >>

\* The server stops and run_api returns its result.
ApiServerExits ==
    /\ api.pc = "serving"
    /\ \E server_result \in { "ok", "runtime: io" } :
          api' = [api EXCEPT !.pc = "returned", !.server = "stopped",
                             !.result = Some(server_result)]
    /\ UNCHANGED << migrateVars, apiFrame >>

NextApi ==
    \/ WriterMigrates
    \/ RunApi
    \/ ApiServerExits

SpecApi == InitApi /\ [][NextApi]_vars

(***************************************************************************)
(* SpecSessions: the poll loop over two sessions in a row, debounce_samples *)
(* 1, so that a session can follow one whose start succeeded and whose     *)
(* persist failed.                                                         *)
(***************************************************************************)
MaxSessionTicks == 5

\* What the charger and the store may answer to an iteration: a plug report,
\* an energy report that is missing, unreadable or good, a store that
\* answers or fails.
SessionInputs ==
    { in \in [ report2 : { Some([ is_object |-> TRUE, plug |-> Some(b), ts |-> None ]) :
                              b \in BOOLEAN },
               report3 : { None,
                           Some([ is_object |-> FALSE, present |-> None, total |-> None ]) }
                         \cup { Some([ is_object |-> TRUE, present |-> Some(Fin(n)),
                                       total |-> None ]) : n \in 0..1 },
               insert : PlainScripts, link : PlainScripts,
               link_done : { 0 }, results_ok : { TRUE } ] :
        Canonical(in, LoopBody(World, in).w) }

InitSessions ==
    /\ machine = NewMachine(1)
    /\ poller = NewPoller(FALSE)
    /\ db = EmptyDb
    /\ results_file = << >>
    /\ lock_poisoned = FALSE
    /\ now = 1
    /\ stop_flag = FALSE
    /\ poller_thread = "running"
    /\ faults = 0
    /\ ghost = NoGhost
    /\ last = NoLast
    /\ run = NoRun /\ emitted = None /\ stable_before = None /\ calls = 0
    /\ flap = NoFlap(NewMachine(1))
    /\ EnergyIdle
    /\ RestIdle

\* One pass through the while loop of start_poller.
SessionTick ==
    /\ poller_thread = "running" /\ ~stop_flag
    /\ now <= MaxSessionTicks
    /\ \E in \in SessionInputs : Iterate(in)

NextSessions == SessionTick

SpecSessions == InitSessions /\ [][NextSessions]_vars

(***************************************************************************)
(* SpecVisible: persist_session_and_finalize of the poller thread taken    *)
(* apart into its with_connection calls, and the link command into its     *)
(* statements, while the workers of the HTTP server run queries on the     *)
(* same SqliteSessionService.                                              *)
(***************************************************************************)
MaxStaged == 2   \* log events staged for the session that is persisted

\* The world of the next loop iteration: the per-iteration counters start
\* again and the clock has advanced.
NextIteration(w) ==
    [w EXCEPT !.now = @ + 1, !.report3_calls = 0, !.results_calls = 0,
              !.insert_answers = << >>, !.link_answers = << >>,
              !.insert_asked = 0, !.link_asked = 0, !.link_failed = FALSE,
              !.link_ids = 0, !.transition = "none"]

\* The world after the loop iterations on the inputs of ins, in order.
RECURSIVE WorldAfter(_, _)
WorldAfter(w, ins) ==
    IF ins = << >> THEN w
    ELSE WorldAfter(NextIteration(LoopBody(w, Head(ins)).w), Tail(ins))

\* The world of a poller that starts on an empty store.
StartWorld ==
    [ machine |-> NewMachine(1), poller |-> NewPoller(FALSE), db |-> EmptyDb,
      results_file |-> << >>, lock_poisoned |-> FALSE, now |-> 1,
      ghost |-> NoGhost, report3_calls |-> 0, results_calls |-> 0,
      insert_answers |-> << >>, link_answers |-> << >>, insert_asked |-> 0,
      link_asked |-> 0, link_failed |-> FALSE, link_ids |-> 0,
      transition |-> "none" ]

\* The charger answers both reports, the plug report saying plugged.
Answering(plugged) ==
    [NoInput EXCEPT
        !.report2 = Some([ is_object |-> TRUE, plug |-> Some(plugged), ts |-> None ]),
        !.report3 = Some([ is_object |-> TRUE, present |-> Some(Fin(1)),
                           total |-> None ])]

\* A session that was plugged in at the second iteration and met `errors`
\* failing plug-report fetches since, each staging one log event.
SessionWithErrors(errors) ==
    WorldAfter(StartWorld,
               << Answering(FALSE), Answering(TRUE) >>
               \o [ i \in 1..errors |-> NoInput ])

\* The columns of a stored session that build_session_record filled.
NewSessionOf(row) == [ f \in DOMAIN row \ {"id"} |-> row[f] ]

\* The iteration that sees the plug pulled has reached
\* persist_session_and_finalize: the debouncer has emitted Unplugged, the
\* record is built, nothing is stored yet.
InitVisible ==
    /\ \E errors \in 0..MaxStaged :
         \E before \in {SessionWithErrors(errors)} :
           \E after \in {LoopBody(before, Answering(FALSE)).w} :
             /\ machine = after.machine
             /\ ghost = after.ghost
             /\ poller = before.poller
             /\ db = before.db
             /\ now = before.now
             /\ combined = [ pc |-> "insert",
                             new_session |-> NewSessionOf(after.db.sessions[1]),
                             staged |-> before.poller.pending_session_log_event_ids,
                             session_id |-> 0, attempt |-> 0, done |-> 0 ]
    /\ results_file = << >>
    /\ lock_poisoned = FALSE
    /\ stop_flag = FALSE
    /\ poller_thread = "running"
    /\ faults = 0
    /\ last = NoLast
    /\ run = NoRun /\ emitted = None /\ stable_before = None /\ calls = 0
    /\ flap = NoFlap(NewMachine(1))
    /\ EnergyIdle
    /\ MutexIdle /\ link_call = None /\ MigrateIdle /\ DurationIdle
    /\ http = None /\ replay = None /\ api = None

visibleFrame == << machine, results_file, lock_poisoned, now, stop_flag, poller_thread,
                   faults, ghost, last, debounceVars, energyVars, link_call,
                   migrateVars, duration, replay, api >>

\* What the store answers to the first attempt of an operation.
FirstAnswers == { script \in Scripts : script.contended = 0 \/
                      (script.contended = 1 /\ script.final = "ok") }

\* The poller calls insert_session, or link_session_log_events with the
\* staged ids: with_connection is entered.
PollerCalls ==
    /\ combined.pc \in {"insert", "link"}
    /\ thread_pc["poller"] = "idle"
    /\ thread_pc' = [thread_pc EXCEPT !["poller"] = "lock"]
    /\ combined' = [combined EXCEPT !.done = 0]
    /\ UNCHANGED << mutex, ops_done, poller, db, http >>
    /\ UNCHANGED visibleFrame

\* The first loop of persist_session_and_finalize: insert_session returns
\* and the guard is dropped. Ok leads to the link loop, busy or locked to
\* another attempt while insert_attempt < SESSION_PERSIST_MAX_RETRIES, any
\* other error out of the function.
InsertReturns ==
    /\ thread_pc["poller"] = "op"
    /\ combined.pc = "insert"
    /\ \E script \in FirstAnswers :
         \E r \in {InsertSession(World, [NoInput EXCEPT !.insert = script],
                                 combined.new_session)} :
           /\ db' = r.w.db
           /\ combined' =
                IF r.answer = "ok"
                THEN [combined EXCEPT !.pc = "link", !.session_id = r.session_id,
                                      !.attempt = 0]
                ELSE IF is_retryable_db_contention(r.answer)
                        /\ combined.attempt < SESSION_PERSIST_MAX_RETRIES
                THEN [combined EXCEPT !.attempt = @ + 1]
                ELSE [combined EXCEPT !.pc = "failed"]
    /\ thread_pc' = [thread_pc EXCEPT !["poller"] = "idle"]
    /\ ops_done' = [ops_done EXCEPT !["poller"] = @ + 1]
    /\ mutex' = [mutex EXCEPT !.holder = None]
    /\ UNCHANGED << poller, http >>
    /\ UNCHANGED visibleFrame

\* One pass of the for loop of db::link_session_log_events: the statement
\* for the next id is executed, and committed, while the guard is held.
LinkStatement ==
    /\ thread_pc["poller"] = "op"
    /\ combined.pc = "link"
    /\ combined.done < Len(poller.pending_session_log_event_ids)
    /\ db' = [db EXCEPT !.links =
                 InsertOrIgnoreLink(@, << combined.session_id,
                     poller.pending_session_log_event_ids[combined.done + 1] >>).links]
    /\ combined' = [combined EXCEPT !.done = @ + 1]
    /\ UNCHANGED << mutexVars, poller, http >>
    /\ UNCHANGED visibleFrame

\* The second loop of persist_session_and_finalize:
\* link_session_log_events returns and the guard is dropped. It returns Ok
\* after the statement of the last id (at once for an empty list) and an
\* error from a statement that fails. Ok leads to the five assignments
\* that close the session, busy or locked to another call while
\* link_attempt < SESSION_PERSIST_MAX_RETRIES, any other error out of the
\* function.
LinkReturns ==
    /\ thread_pc["poller"] = "op"
    /\ combined.pc = "link"
    /\ \E answer \in {"ok", "busy", "locked", "other"} :
         /\ answer = "ok" <=> combined.done = Len(poller.pending_session_log_event_ids)
         /\ IF answer = "ok"
            THEN /\ poller' = [poller EXCEPT !.start_snapshot = None,
                                             !.start_report2_raw = None,
                                             !.start_report3_raw = None,
                                             !.error_count_during_session = 0,
                                             !.pending_session_log_event_ids = << >>]
                 /\ combined' = [combined EXCEPT !.pc = "done"]
            ELSE /\ UNCHANGED poller
                 /\ combined' =
                      IF is_retryable_db_contention(answer)
                         /\ combined.attempt < SESSION_PERSIST_MAX_RETRIES
                      THEN [combined EXCEPT !.attempt = @ + 1]
                      ELSE [combined EXCEPT !.pc = "failed"]
    /\ thread_pc' = [thread_pc EXCEPT !["poller"] = "idle"]
    /\ ops_done' = [ops_done EXCEPT !["poller"] = @ + 1]
    /\ mutex' = [mutex EXCEPT !.holder = None]
    /\ UNCHANGED << db, http >>
    /\ UNCHANGED visibleFrame

\* The log events charging_session_log_events links to the session.
LinkedTo(store, session_id) ==
    { store.links[i][2] : i \in { j \in 1..Len(store.links) :
                                    store.links[j][1] = session_id } }

\* A worker's query returns and the guard is dropped: http keeps what the
\* query found in the store (the newest session and the links of that
\* session) and where the poller was.
QueryReturns(t) ==
    /\ t # "poller"
    /\ thread_pc[t] = "op"
    /\ \E latest \in {get_latest_session(db)} :
         http' = Some([ session |-> IF IsSome(latest) THEN Unwrap(latest).id ELSE 0,
                        links |-> IF IsSome(latest)
                                  THEN LinkedTo(db, Unwrap(latest).id) ELSE {},
                        persist |-> combined.pc,
                        link_calls_returned |->
                            IF combined.pc = "link" THEN combined.attempt ELSE 0,
                        poller_in_op |-> thread_pc["poller"] = "op" ])
    /\ thread_pc' = [thread_pc EXCEPT ![t] = "idle"]
    /\ ops_done' = [ops_done EXCEPT ![t] = @ + 1]
    /\ mutex' = [mutex EXCEPT !.holder = None]
    /\ UNCHANGED << poller, db, combined >>
    /\ UNCHANGED visibleFrame

NextVisible ==
    \/ PollerCalls
    \/ InsertReturns
    \/ LinkStatement
    \/ LinkReturns
    \/ \E t \in Threads : Lock(t)
    \/ \E t \in Threads \ {"poller"} : CallWithConnection(t)
    \/ \E t \in Threads : QueryReturns(t)

SpecVisible == InitVisible /\ [][NextVisible]_vars

(***************************************************************************)
(* SpecTransitions: a SessionStateMachine fed any sequence of observations *)
(* through either entry point, with the transitions it has returned kept   *)
(* in ghost: how many there were and the one before the last call.         *)
(***************************************************************************)
NoTransitions == [ returned |-> 0, previous |-> None ]

InitTransitions ==
    /\ \E debounce_samples \in 0..MaxDebounce : machine = NewMachine(debounce_samples)
    /\ ghost = NoTransitions
    /\ emitted = None
    /\ stable_before = None
    /\ calls = 0
    /\ run = NoRun
    /\ flap = NoFlap(NewMachine(1))
    /\ EnergyIdle
    /\ poller = NewPoller(FALSE) /\ db = EmptyDb /\ results_file = << >>
    /\ lock_poisoned = FALSE /\ now = 1 /\ stop_flag = FALSE
    /\ poller_thread = "exited" /\ faults = 0 /\ last = NoLast
    /\ RestIdle

\* The history after a call that returned `transition`: previous is the
\* last transition returned by the calls before it.
Returned(g, before, transition) ==
    [ returned |-> g.returned + Count(IsSome(transition)),
      previous |-> IF IsSome(before) THEN before ELSE g.previous ]

transitionsFrame == << run, flap, energyVars, poller, db, results_file, lock_poisoned,
                       now, stop_flag, poller_thread, faults, last, restVars >>

ObserveAtTracked ==
    /\ calls < MaxCalls
    /\ \E plugged_observation \in BOOLEAN, observed_at \in Times :
         \E r \in {ObserveAt(machine, plugged_observation, observed_at)} :
             /\ machine' = r.machine
             /\ emitted' = r.transition
             /\ ghost' = Returned(ghost, emitted, r.transition)
    /\ stable_before' = machine.stable_plugged
    /\ calls' = calls + 1
    /\ UNCHANGED transitionsFrame

ObserveTracked ==
    /\ calls < MaxCalls
    /\ \E plugged_observation \in BOOLEAN, clock_now \in Times :
         \E r \in {Observe(machine, plugged_observation, clock_now)} :
             /\ machine' = r.machine
             /\ emitted' = r.transition
             /\ ghost' = Returned(ghost, emitted, r.transition)
    /\ stable_before' = machine.stable_plugged
    /\ calls' = calls + 1
    /\ UNCHANGED transitionsFrame

NextTransitions == ObserveAtTracked \/ ObserveTracked

SpecTransitions == InitTransitions /\ [][NextTransitions]_vars

(***************************************************************************)
(* SpecClock: the same observations given to three machines: machine       *)
(* through observe with a Clock, ghost.by_at through observe_at, and       *)
(* ghost.mixed through one or the other entry point, call by call. When    *)
(* observe reads the clock, observe_at is given that reading; in the       *)
(* other calls it is given any timestamp.                                  *)
(***************************************************************************)
InitClock ==
    /\ \E debounce_samples \in 0..MaxDebounce :
         /\ machine = NewMachine(debounce_samples)
         /\ ghost = [ by_at |-> NewMachine(debounce_samples),
                      mixed |-> NewMachine(debounce_samples),
                      by_at_returned |-> None, mixed_returned |-> None,
                      entry_points |-> {} ]
    /\ emitted = None
    /\ stable_before = None
    /\ calls = 0
    /\ run = NoRun
    /\ flap = NoFlap(NewMachine(1))
    /\ EnergyIdle
    /\ poller = NewPoller(FALSE) /\ db = EmptyDb /\ results_file = << >>
    /\ lock_poisoned = FALSE /\ now = 1 /\ stop_flag = FALSE
    /\ poller_thread = "exited" /\ faults = 0 /\ last = NoLast
    /\ RestIdle

\* observe reads the clock in this call: accept_candidate_with_clock is
\* reached and starts a candidate.
ReadsClock(m, plugged_observation) ==
    IF IsNone(m.stable_plugged) THEN FALSE
    ELSE IF Unwrap(m.stable_plugged) = plugged_observation THEN FALSE
    ELSE IF IsNone(m.candidate) THEN TRUE
    ELSE Unwrap(m.candidate).plugged # plugged_observation

\* One observation reaches the three machines.
ObserveBoth ==
    /\ calls < MaxCalls
    /\ \E plugged_observation \in BOOLEAN, clock_now \in Times, observed_at \in Times,
          entry \in {"observe", "observe_at"} :
         /\ ReadsClock(machine, plugged_observation) => observed_at = clock_now
         /\ \E r \in {Observe(machine, plugged_observation, clock_now)},
               r_at \in {ObserveAt(ghost.by_at, plugged_observation, observed_at)},
               r_mixed \in {IF entry = "observe"
                            THEN Observe(ghost.mixed, plugged_observation, clock_now)
                            ELSE ObserveAt(ghost.mixed, plugged_observation, observed_at)} :
              /\ machine' = r.machine
              /\ emitted' = r.transition
              /\ ghost' = [ by_at |-> r_at.machine, mixed |-> r_mixed.machine,
                            by_at_returned |-> r_at.transition,
                            mixed_returned |-> r_mixed.transition,
                            entry_points |-> ghost.entry_points \cup {entry} ]
    /\ stable_before' = machine.stable_plugged
    /\ calls' = calls + 1
    /\ UNCHANGED transitionsFrame

NextClock == ObserveBoth

SpecClock == InitClock /\ [][NextClock]_vars

(***************************************************************************)
(* Claims                                                                  *)
(***************************************************************************)

\* C1: once a stable plug state exists, a call returns a transition only if
\* its observation differs from the stable state and is the N-th consecutive
\* observation of that value; every other call returns None (in particular
\* every call made while no stable state exists).
C1_TransitionOnlyOnNthConsecutive ==
    IsSome(emitted) =>
        /\ IsSome(stable_before)
        /\ run.plugged # Unwrap(stable_before)
        /\ run.len = machine.debounce_samples

\* A transition emitted by a machine that debounces over three samples.
C1_Witness ==
    /\ IsSome(emitted)
    /\ machine.debounce_samples = 3
    /\ run.len = 3

\* C2: an emitted transition carries the timestamp of the first of the N
\* consecutive observations that produced it: Plugged.plugged_at and
\* Unplugged.unplugged_at equal the timestamp the candidate was started with.
C2_TransitionStampedWithFirstObservation ==
    IsSome(emitted) =>
        IF Unwrap(emitted).kind = "Plugged"
        THEN Unwrap(emitted).plugged_at = run.first_at
        ELSE Unwrap(emitted).unplugged_at = run.first_at

\* An Unplugged transition whose threshold observation carries another
\* timestamp than the first observation of the run.
C2_Witness ==
    /\ IsSome(emitted)
    /\ Unwrap(emitted).kind = "Unplugged"
    /\ run.len >= 2
    /\ run.last_at # run.first_at
    /\ Unwrap(emitted).plugged_at # Unwrap(emitted).unplugged_at

\* The snapshot with its total counter removed.
WithoutTotal(snapshot) == [snapshot EXCEPT !.total_kwh = None]

\* C4: compute_session_kwh picks its source by strict priority:
\* PresentSessionDelta when end.present and start.present exist, else
\* PresentSession when end.present exists, else TotalDelta when both totals
\* exist, else NoUsableEnergyData; with end.present the totals do not matter.
C4_SourcePriority ==
    IsSome(e_result) =>
        LET r == Unwrap(e_result)
            end == Unwrap(e_end)
        IN  /\ IsSome(end.present_session_kwh) /\ IsSome(StartPresent(e_start))
                => r.ok /\ r.source = "PresentSessionDelta"
            /\ IsSome(end.present_session_kwh) /\ IsNone(StartPresent(e_start))
                => r.ok /\ r.source = "PresentSession"
            /\ IsNone(end.present_session_kwh)
                 /\ IsSome(StartTotal(e_start)) /\ IsSome(end.total_kwh)
                => r.ok /\ r.source = "TotalDelta"
            /\ IsNone(end.present_session_kwh)
                 /\ (IsNone(StartTotal(e_start)) \/ IsNone(end.total_kwh))
                => ~r.ok /\ r.error = "NoUsableEnergyData"
            /\ IsSome(end.present_session_kwh)
                => r = compute_session_kwh(
                          IF IsSome(e_start) THEN Some(WithoutTotal(Unwrap(e_start))) ELSE None,
                          WithoutTotal(end))

\* Both totals are present and would give another figure, yet the
\* present-session counter of the end snapshot alone decides.
C4_Witness ==
    /\ IsSome(e_result)
    /\ Unwrap(e_result).source = "PresentSession"
    /\ IsSome(StartTotal(e_start))
    /\ IsSome(Unwrap(e_end).total_kwh)
    /\ FSub(Unwrap(Unwrap(e_end).total_kwh), Unwrap(StartTotal(e_start)))
         # Unwrap(e_result).kwh

\* C5: whenever compute_session_kwh succeeds the returned kwh is >= 0.
C5_EnergyNonNegative ==
    IsSome(e_result) /\ Unwrap(e_result).ok => FGeZero(Unwrap(e_result).kwh)

\* The row the last iteration inserted, if it inserted one.
LastRow == db.sessions[Len(db.sessions)]

\* C3: the session row written on an Unplugged transition carries the
\* (status, finished_reason) of the outcome table: a failed energy fetch
\* gives (aborted, report3_fetch_failed), a failed parse (invalid,
\* report3_parse_failed), a failed computation (invalid,
\* energy_compute_failed), a computation with warnings (invalid,
\* energy_clamped), and only the remaining case (completed,
\* plug_state_transition).
C3_OutcomeTable ==
    last.transition = "Unplugged" /\ last.inserted = 1 =>
        << LastRow.status, LastRow.finished_reason >> =
            CASE last.report3 = "fetch_err" -> << "aborted", "report3_fetch_failed" >>
              [] last.report3 = "parse_err" -> << "invalid", "report3_parse_failed" >>
              [] last.report3 = "ok" /\ ~Unwrap(last.energy).ok ->
                     << "invalid", "energy_compute_failed" >>
              [] last.report3 = "ok" /\ Unwrap(last.energy).warned ->
                     << "invalid", "energy_clamped" >>
              [] OTHER -> << "completed", "plug_state_transition" >>

\* An Unplugged transition whose energy was computed with a clamping
\* warning has written its row.
C3_Witness ==
    /\ last.transition = "Unplugged"
    /\ last.inserted = 1
    /\ last.report3 = "ok"
    /\ Unwrap(last.energy).warned
    /\ LastRow.finished_reason = "energy_clamped"

\* C6: session rows are inserted only by an iteration whose debouncer
\* emitted Unplugged, at most one per such iteration, so there are never
\* more rows than Unplugged transitions.
C6_RowsOnlyOnUnplugged ==
    /\ Len(db.sessions) <= ghost.unplugged_transitions
    /\ last.inserted <= 1
    /\ last.transition # "Unplugged" => last.inserted = 0

\* Two Unplugged transitions have each written their row.
C6_Witness ==
    /\ last.transition = "Unplugged"
    /\ last.inserted = 1
    /\ Len(db.sessions) = 2
    /\ ghost.unplugged_transitions = 2

\* C7: a completed row of a session that began with a Plugged transition
\* carries as error_count_during_session the number of iterations whose
\* tick returned an error between that transition and its Unplugged
\* transition.
C7_ErrorCountIsTickErrors ==
    \A i \in 1..Len(db.sessions) :
        db.sessions[i].status = "completed" /\ db.sessions[i].g_plugged_seen
            => db.sessions[i].error_count_during_session = db.sessions[i].g_tick_errors

\* C8: every link row joins a session with a log event that was recorded
\* while that session was the active one.
C8_LinksOnlyOwnEvents ==
    \A i \in 1..Len(db.links) :
        db.log_events[db.links[i][2]].g_session = db.sessions[db.links[i][1]].g_session

\* The answers that make persist_session_and_finalize try again.
Contention == {"busy", "locked"}

\* C9: the insert and the link of one iteration are each attempted at most
\* 4 times, every attempt but the last one was answered busy or locked, and
\* a 4th busy/locked answer ends the tick with the database error.
C9_RetryOnlyOnContention ==
    \A answers \in {last.insert_answers, last.link_answers} :
        /\ Len(answers) <= 4
        /\ \A i \in 1..(Len(answers) - 1) : answers[i] \in Contention
        /\ Len(answers) = 4 /\ answers[4] \in Contention => last.result = "Database"

\* The insert was answered busy or locked four times and the tick failed.
C9_Witness ==
    /\ Len(last.insert_answers) = 4
    /\ last.insert_answers[4] \in Contention
    /\ last.result = "Database"
    /\ last.inserted = 0

\* C10: an answer that is neither success nor busy/locked (another storage
\* error, a poisoned mutex) is the last answer of its operation and of the
\* iteration: no attempt follows it, the tick returns the error it maps to,
\* and the thread is still running afterwards.
C10_OtherErrorsEndTheTick ==
    /\ \A answers \in {last.insert_answers, last.link_answers} :
         \A i \in 1..Len(answers) :
            answers[i] \notin Contention \cup {"ok"} =>
                /\ i = Len(answers)
                /\ last.result = IF answers[i] = "poisoned" THEN "DbLockPoisoned"
                                 ELSE "Database"
    /\ last.insert_answers # << >>
         /\ last.insert_answers[Len(last.insert_answers)] # "ok"
         => last.link_answers = << >>
    /\ last.result # "ok" => poller_thread = "running"

\* The first answer to the insert was a storage error other than busy or
\* locked: one attempt, a failed tick, a running thread.
C10_Witness ==
    /\ last.insert_answers = << "other" >>
    /\ last.link_answers = << >>
    /\ last.result = "Database"
    /\ last.inserted = 0
    /\ poller_thread = "running"

\* The threads whose operation is running on the connection.
OnConnection == { t \in Threads : thread_pc[t] = "op" }

\* C11: at no moment do two threads run an operation on the connection,
\* and the thread that runs one is the holder of the mutex.
C11_OneThreadOnConnection ==
    /\ Cardinality(OnConnection) <= 1
    /\ \A t \in OnConnection : mutex.holder = Some(t)

\* The poller thread's command runs on the connection while both HTTP
\* workers are waiting in lock().
C11_Witness ==
    /\ thread_pc["poller"] = "op"
    /\ thread_pc["http1"] = "lock"
    /\ thread_pc["http2"] = "lock"
    /\ ops_done["http1"] > 0

\* The pairs a call to link_session_log_events names.
PairsOf(call) ==
    { << call.session_id, call.log_event_ids[i] >> : i \in 1..Len(call.log_event_ids) }

\* The rows of a table of links, as a set.
RowsOf(links) == { links[i] : i \in 1..Len(links) }

\* C12: a link_session_log_events call either succeeds and every pair it
\* names is in the table, or it fails and the table is as it was before the
\* call.
C12_LinkCallIsAtomic ==
    link_call # None =>
        IF Unwrap(link_call).answer = "ok"
        THEN PairsOf(Unwrap(link_call)) \subseteq RowsOf(db.links)
        ELSE db.links = Unwrap(link_call).before

\* C13: however often pairs are linked, the table holds each pair once; a
\* call fails only when the store fails, never because a pair is there
\* already; and a call that names only pairs already there leaves the table
\* as it is.
C13_LinkIsIdempotent ==
    /\ \A i, j \in 1..Len(db.links) : db.links[i] = db.links[j] => i = j
    /\ link_call # None =>
         /\ Unwrap(link_call).store = "ok" => Unwrap(link_call).answer = "ok"
         /\ Unwrap(link_call).answer = "ok" =>
              RowsOf(db.links) = RowsOf(Unwrap(link_call).before)
                                   \cup PairsOf(Unwrap(link_call))
         /\ PairsOf(Unwrap(link_call)) \subseteq RowsOf(Unwrap(link_call).before)
              => db.links = Unwrap(link_call).before

\* A call that failed with busy or locked after its first statement is
\* repeated with the same arguments and succeeds: the pair that was there
\* already is still there once, the other one is added.
C13_Witness ==
    /\ link_call # None
    /\ Unwrap(link_call).retry
    /\ Unwrap(link_call).answer = "ok"
    /\ Len(Unwrap(link_call).log_event_ids) = 2
    /\ Len(db.links) = Len(Unwrap(link_call).before) + 1
    /\ PairsOf(Unwrap(link_call)) \cap RowsOf(Unwrap(link_call).before) # {}

\* The last run_migrations call.
LastRun == Unwrap(migration.last)

\* The rows of a table of a database file, 0 when the table is not there.
RowsIn(file, name) == UnwrapOr(file.tables[name], 0)

\* C14: a run_migrations call that follows a successful one applies no
\* step and leaves the file as the first one left it: the same user_version,
\* the same tables, the same number of rows in each.
C14_SecondRunChangesNothing ==
    (migration.last # None /\ LastRun.after_ok) =>
        /\ LastRun.applied = << >>
        /\ disk = LastRun.start

\* A file with rows was migrated, and run_migrations was called a second
\* time and returned Ok.
C14_Witness ==
    /\ migration.runs = 2
    /\ LastRun.after_ok
    /\ LastRun.result = "ok"
    /\ RowsIn(disk, "charging_sessions") > 0
    /\ disk.user_version = LATEST_SCHEMA_VERSION

\* C15: a successful run from version v applies exactly the versions
\* v+1..5, in this order, and leaves user_version = 5; in every run the
\* user_version written by one step is above the one before it, and the
\* file's user_version after the run is not below the one before the run.
C15_AppliesPendingStepsInOrder ==
    migration.last # None =>
        LET v == LastRun.start.user_version
            seen == << v >> \o LastRun.versions
        IN /\ LastRun.result = "ok" =>
                /\ v <= LATEST_SCHEMA_VERSION
                /\ LastRun.applied = [ i \in 1..(LATEST_SCHEMA_VERSION - v) |-> v + i ]
                /\ disk.user_version = LATEST_SCHEMA_VERSION
           /\ \A i \in 1..(Len(seen) - 1) : seen[i] < seen[i + 1]
           /\ disk.user_version >= v

\* A file of version 2 was migrated: the steps 3, 4 and 5 ran.
C15_Witness ==
    /\ migration.last # None
    /\ LastRun.result = "ok"
    /\ LastRun.start.user_version = 2
    /\ LastRun.applied = << 3, 4, 5 >>
    /\ disk.user_version = LATEST_SCHEMA_VERSION

\* C16: when the script or the user_version update of a pending step fails,
\* run_migrations returns an error; and whenever it returns a database
\* error the file has the user_version and the tables it had before the run.
C16_FailedRunChangesNothing ==
    migration.last # None =>
        /\ ( /\ LastRun.fail.stage \in { "execute_batch", "pragma_update" }
             /\ LastRun.start.user_version < LastRun.fail.version )
           => LastRun.result = "sqlite"
        /\ LastRun.result = "sqlite" => disk = LastRun.start

\* A file of version 1 with rows: the steps 2, 3 and 4 ran, the script of
\* step 5 failed.
C16_Witness ==
    /\ migration.last # None
    /\ LastRun.result = "sqlite"
    /\ LastRun.fail = [ stage |-> "execute_batch", version |-> 5 ]
    /\ LastRun.start.user_version = 1
    /\ LastRun.applied = << 2, 3, 4 >>
    /\ RowsIn(LastRun.start, "sessions") > 0
    /\ disk = LastRun.start

\* C17: a run on a file whose user_version is above the latest known one
\* returns UnsupportedSchemaVersion, runs no step and leaves the file as it
\* was.
C17_NewerSchemaIsRefused ==
    (migration.last # None /\ LastRun.start.user_version > LATEST_SCHEMA_VERSION) =>
        /\ LastRun.result = "unsupported_schema_version"
        /\ LastRun.applied = << >>
        /\ disk = LastRun.start

\* run_migrations was called on a file of version 6 that holds rows.
C17_Witness ==
    /\ migration.last # None
    /\ LastRun.start.user_version = LATEST_SCHEMA_VERSION + 1
    /\ LastRun.result = "unsupported_schema_version"
    /\ RowsIn(disk, "charging_session_log_events") > 0
    /\ disk.user_version = LATEST_SCHEMA_VERSION + 1

\* C18: a call made while no stable state exists returns no transition and
\* leaves active_session_started_at unset; the observed value becomes the
\* stable state exactly when it has been observed debounce_samples times in
\* a row, and the candidate is dropped then.
C18_ColdStartAdoptsSilently ==
    (calls > 0 /\ IsNone(stable_before)) =>
        /\ IsNone(emitted)
        /\ IsNone(machine.active_session_started_at)
        /\ IF run.len >= machine.debounce_samples
           THEN /\ run.len = machine.debounce_samples
                /\ machine.stable_plugged = Some(run.plugged)
                /\ IsNone(machine.candidate)
           ELSE IsNone(machine.stable_plugged)

\* A machine that debounces over two samples starts with the vehicle
\* plugged: the second observation adopts the plugged state.
C18_Witness ==
    /\ calls = 2
    /\ IsNone(stable_before)
    /\ machine.debounce_samples = 2
    /\ machine.stable_plugged = Some(TRUE)
    /\ IsNone(emitted)
    /\ IsNone(machine.active_session_started_at)

\* The trailing run follows a flap: a run of fewer than debounce_samples
\* observations of the value opposite to the stable state that existed
\* before it.
AfterFlap ==
    /\ flap.prev.len > 0
    /\ flap.prev.len < machine.debounce_samples
    /\ IsSome(flap.before_prev.stable_plugged)
    /\ flap.prev.plugged # Unwrap(flap.before_prev.stable_plugged)

\* C19: after a flap and an observation of the stable value, no call of the
\* flap and none since returned a transition, and the debouncer is as it was
\* before the flap: same stable_plugged, same active_session_started_at, no
\* candidate.
C19_FlapLeavesNoTrace ==
    AfterFlap =>
        /\ ~flap.prev_emitted
        /\ ~flap.run_emitted
        /\ IsNone(emitted)
        /\ machine.stable_plugged = flap.before_prev.stable_plugged
        /\ machine.active_session_started_at = flap.before_prev.active_session_started_at
        /\ IsNone(machine.candidate)
        /\ machine = flap.before_prev

\* A session is open on a machine that debounces over two samples; one
\* unplugged observation is followed by a plugged one.
C19_Witness ==
    /\ AfterFlap
    /\ machine.debounce_samples = 2
    /\ flap.prev.len = 1
    /\ run.len = 1
    /\ machine.stable_plugged = Some(TRUE)
    /\ IsSome(machine.active_session_started_at)

\* C20: the record built for an Unplugged transition has
\* duration_ms = max(0, unplugged_at - plugged_at), which is never negative.
C20_DurationIsClampedDifference ==
    IF IsNone(duration.built) THEN TRUE
    ELSE IsSome(Unwrap(duration.built).record) =>
        LET built == Unwrap(duration.built)
            duration_ms == Unwrap(built.record).duration_ms
        IN  /\ duration_ms >= 0
            /\ duration_ms = Max(0, built.unplugged_at - built.plugged_at)

\* C21: every session row with status aborted or invalid has energy_kwh
\* 0.0, and the row written after a failed end energy fetch is aborted with
\* no raw_report3_end and with the raw_report2_end of that tick.
C21_FailedSessionsStoreZeroEnergy ==
    /\ \A i \in 1..Len(db.sessions) :
         /\ db.sessions[i].status \in {"aborted", "invalid"}
              => db.sessions[i].energy_kwh = Fin(0)
         /\ db.sessions[i].status = "aborted"
              => /\ db.sessions[i].finished_reason = "report3_fetch_failed"
                 /\ IsNone(db.sessions[i].raw_report3_end)
                 /\ IsSome(db.sessions[i].raw_report2_end)
    /\ (last.report3 = "fetch_err" /\ last.inserted = 1) =>
         /\ LastRow.status = "aborted"
         /\ IsNone(LastRow.raw_report3_end)
         /\ LastRow.raw_report2_end = Some(now - 1)

\* A session that began with a Plugged transition ends with a failed energy
\* fetch: its row is aborted.
C21_Witness ==
    /\ last.transition = "Unplugged"
    /\ last.report3 = "fetch_err"
    /\ last.inserted = 1
    /\ LastRow.status = "aborted"
    /\ LastRow.g_plugged_seen
    /\ IsSome(LastRow.raw_report2_start)

\* C22: an iteration whose Plugged transition could not fetch or parse the
\* energy report inserts no session row, leaves start_snapshot unset, adds
\* exactly one log event (the one of the failed fetch resp. parse) and
\* returns Ok.
C22_FailedStartLogsOneEvent ==
    (last.transition = "Plugged" /\ last.report3 \in {"fetch_err", "parse_err"}) =>
        /\ last.inserted = 0
        /\ poller.start_snapshot = None
        /\ last.result = "ok"
        /\ Cardinality(last.logged) = 1
        /\ \A id \in last.logged :
             db.log_events[id].code = IF last.report3 = "fetch_err"
                                      THEN "poll.fetch_report3_on_plugged"
                                      ELSE "poll.parse_report3_on_plugged"

\* What remains of C22 when the log event cannot be stored: no row, no
\* start snapshot, Ok, and at most the one log event.
C22_FailedStartWritesNoRow ==
    (last.transition = "Plugged" /\ last.report3 \in {"fetch_err", "parse_err"}) =>
        /\ last.inserted = 0
        /\ poller.start_snapshot = None
        /\ last.result = "ok"
        /\ Cardinality(last.logged) <= 1
        /\ \A id \in last.logged :
             db.log_events[id].code \in {"poll.fetch_report3_on_plugged",
                                         "poll.parse_report3_on_plugged"}


\* The store's last answer to the link statements of the last iteration was
\* a success.
LinkSucceeded ==
    /\ last.link_answers # << >>
    /\ last.link_answers[Len(last.link_answers)] = "ok"

\* Insert, then link, then append, each only after the one before it
\* succeeded: no link without the row, no results entry without the row and
\* its links, never more than one row and one entry.
PersistOrder ==
    /\ last.insert_answers # << >>
    /\ last.inserted <= 1
    /\ last.inserted = 0 => (last.link_answers = << >> /\ last.appended = 0)
    /\ last.link_answers # << >> => last.inserted = 1
    /\ ~LinkSucceeded => last.appended = 0
    /\ last.appended <= 1
    /\ ~poller.results_output_file => last.appended = 0

\* C23: an iteration with an Unplugged transition inserts the session row,
\* then links the staged log events, then appends exactly one entry to the
\* results file when one is configured, whichever of the five outcomes the
\* session has; no link after a failed insert, no entry after a failed
\* insert or link.
C23_EveryOutcomeAppendsOneEntry ==
    last.transition = "Unplugged" =>
        /\ PersistOrder
        /\ (poller.results_output_file /\ last.result = "ok") => last.appended = 1

\* What the code does: the order holds for all five outcomes, and the entry
\* is appended for the three outcomes that got an energy report parsed, not
\* for report3_fetch_failed and report3_parse_failed.
C23_OnlyParsedOutcomesAppend ==
    last.transition = "Unplugged" =>
        /\ PersistOrder
        /\ (poller.results_output_file /\ last.result = "ok" /\ last.report3 = "ok")
               => last.appended = 1
        /\ last.report3 \in {"fetch_err", "parse_err"} => last.appended = 0


\* The log events the step added that carry the code of the error the tick
\* returned.
NotedEvents ==
    { id \in last'.logged : db'.log_events[id].code = poller_error_code(last'.result) }

\* The step is an iteration of the poll loop whose tick returned an error.
FailedTickStep == now' = now + 1 /\ last'.result \notin {"ok", "none"}

\* note_poll_error counts the error when the debouncer has a session open,
\* and not otherwise.
CountedWhenActive ==
    IF IsSome(machine'.active_session_started_at)
    THEN poller'.error_count_during_session = poller.error_count_during_session + 1
    ELSE poller'.error_count_during_session <= poller.error_count_during_session

\* C24: an iteration whose tick returned an error (FetchReport2,
\* ParseReport2, DbLockPoisoned, Database, ResultsIo) adds exactly one log
\* event with the code of that error, counts the error in
\* error_count_during_session exactly when a session is active, and leaves
\* the thread running.
C24_EveryTickErrorIsLogged ==
    [][FailedTickStep =>
          /\ Cardinality(NotedEvents) = 1
          /\ CountedWhenActive
          /\ poller_thread' = "running"]_vars

\* What the code does: the event is stored unless the connection mutex is
\* poisoned, and then nothing is stored.
C24_TickErrorIsLoggedUnlessPoisoned ==
    [][FailedTickStep =>
          /\ Cardinality(NotedEvents) = IF lock_poisoned THEN 0 ELSE 1
          /\ CountedWhenActive
          /\ poller_thread' = "running"]_vars


\* a is an initial segment of b: every row of a is in b at its place, with
\* all its fields.
IsPrefix(a, b) == Len(a) <= Len(b) /\ SubSeq(b, 1, Len(a)) = a

\* C25: across every step (an iteration of the poll loop, a poisoning of the
\* mutex, an HTTP request) the session rows and the log-event rows stay what
\* they were, with new rows only added behind them: no row is changed or
\* removed and neither row count decreases.
C25_RowsAreAppendOnly ==
    [][/\ IsPrefix(db.sessions, db'.sessions)
       /\ IsPrefix(db.log_events, db'.log_events)]_vars

\* Both tables hold rows from one session, a second session has added rows
\* behind them, and the HTTP surface has listed the sessions.
C25_Witness ==
    /\ Len(db.sessions) >= 1
    /\ Len(db.log_events) >= 2
    /\ \E i \in 1..Len(db.log_events) : db.log_events[i].g_session = 0
    /\ IsSome(http)
    /\ Unwrap(http).endpoint = "/sessions"
    /\ Unwrap(http).response.status = 200
    /\ Len(Unwrap(http).response.body) >= 1


\* C26: the poller thread reads the stop flag only where it evaluates the
\* loop condition.  An iteration that has begun is carried out whole
\* (tick with its inserts, links and retries, and note_poll_error) also when
\* the flag is stored meanwhile, and it is the only one that ends after the
\* store; no iteration begins after the store, and the thread leaves the
\* loop only on a stored flag.
C26_StopFlagReadAtTickBoundaries ==
    /\ [](/\ ~combined.started_after_stop
          /\ combined.ticks_after_stop <= 1
          /\ combined.ticks_after_stop = 1 => combined.stored_at = "tick"
          /\ poller_thread = "exited" => (stop_flag /\ combined.pc = "done")
          /\ (stop_flag /\ combined.stored_at = "tick" /\ poller_thread # "panicked"
              /\ combined.pc # "tick")
                 => (combined.ticks_after_stop = 1 /\ last.result # "none"))
    /\ [][(combined.pc = "tick" /\ poller_thread' = "running")
             => (/\ combined'.pc \in { "tick", "sleep" }
                 /\ combined'.pc = "sleep" => (now' = now + 1 /\ last'.result # "none"))]_vars

\* The flag was stored while an iteration with an Unplugged transition was
\* under way; the iteration inserted the row at the second attempt and
\* linked its log event, and then the thread left the loop.
C26_Witness ==
    /\ stop_flag
    /\ combined.stored_at = "tick"
    /\ combined.ticks_after_stop = 1
    /\ last.transition = "Unplugged"
    /\ last.insert_answers = << "busy", "ok" >>
    /\ last.inserted = 1
    /\ last.linked # << >>
    /\ poller_thread = "exited"


PollerEnded == poller_thread \in { "exited", "panicked" }

\* C27: once the HTTP server has exited, the stop flag is stored and the
\* poller thread ends; run_combined returns, and only after the thread has
\* ended.  It returns the runtime error "poller thread panicked" when the
\* thread panicked and the server's result otherwise.
C27_CombinedShutsDownAfterServerExit ==
    /\ [](combined.main = "returned" =>
             /\ stop_flag
             /\ PollerEnded
             /\ combined.result =
                    IF poller_thread = "panicked"
                    THEN Some("runtime: poller thread panicked")
                    ELSE combined.server_result)
    /\ [](combined.main \in { "joining", "returned" } => stop_flag)
    /\ (combined.main = "stopping") ~> (stop_flag /\ PollerEnded)
    /\ (combined.main = "stopping") ~> (combined.main = "returned")

\* The server exited while an iteration was under way; the thread finished
\* it, left the loop, and run_combined returned what the server returned.
C27_Witness ==
    /\ combined.main = "returned"
    /\ poller_thread = "exited"
    /\ combined.stored_at = "tick"
    /\ combined.ticks_after_stop = 1
    /\ combined.result = Some("ok")


\* The number of calls made so far for the kind of the last call.
CallsOfKind == IF replay.for_report2 THEN replay.calls.report2 ELSE replay.calls.report3

\* The events of the kind of the last call.
EventsOfKind ==
    IF replay.for_report2 THEN replay.client.script.report2
    ELSE replay.client.script.report3

\* C29: the k-th call for a report kind, whatever was asked of the other
\* kind in between, returns what the k-th event of that kind's list holds
\* while k is at most the length of the list; beyond it, a script that does
\* not loop fails with UnexpectedEof at every call, and one that loops
\* returns event ((k-1) mod length) and never fails with UnexpectedEof.
C29_CursorPerReportKind ==
    IsSome(replay.returned) =>
        LET k == CallsOfKind
            events == EventsOfKind
            returned == Unwrap(replay.returned)
        IN  /\ k <= Len(events) => returned = execute_event(events[k])
            /\ (k > Len(events) /\ ~replay.client.script.loop_forever)
                   => returned = [ ok |-> FALSE, error |-> "UnexpectedEof" ]
            /\ replay.client.script.loop_forever
                   => /\ returned = execute_event(events[((k - 1) % Len(events)) + 1])
                      /\ ~(~returned.ok /\ returned.error = "UnexpectedEof")

\* The third call for report 3 on a looping script of two events, after a
\* call for report 2: it returns the first event again.
C29_Witness ==
    /\ IsSome(replay.returned)
    /\ replay.client.script.loop_forever
    /\ ~replay.for_report2
    /\ replay.calls.report3 = 3
    /\ replay.calls.report2 = 1
    /\ Len(replay.client.script.report3) = 2
    /\ replay.client.script.report3[1] # replay.client.script.report3[2]
    /\ Unwrap(replay.returned) = execute_event(replay.client.script.report3[1])


\* The step is a pass of the replay loop whose tick returned an error.
ReplayTickFailed == now' = now + 1 /\ last'.result \notin { "ok", "none" }

C30_ApiRefusesUninitializedDatabase ==
    [][(api.pc = "start" /\ api'.pc # "start") =>
          /\ disk' = disk
          /\ migration' = migration
          /\ schema_version(disk) = 0 =>
                /\ api'.pc = "returned"
                /\ IsSome(api'.result) /\ Unwrap(api'.result) \in DatabaseInitErrors
                /\ api'.fault = "none" => api'.result = Some(NotInitialized)
                /\ api'.server = "not_started"
                /\ IsNone(api'.reader)
          /\ (schema_version(disk) >= 1 /\ api'.fault = "none") =>
                /\ IsSome(api'.reader)
                /\ Unwrap(api'.reader).query_only
                /\ Unwrap(api'.reader).version = schema_version(disk)
                /\ api'.server = "running" \/ api'.result = Some("runtime: bind")
          /\ api'.server = "running" => schema_version(disk) >= 1]_vars

\* C30 witness: a writer's run of the migrations failed on a new file and
\* left user_version 0; the api runtime then refused to start.
C30_Witness ==
    /\ api.pc = "returned"
    /\ api.result = Some(NotInitialized)
    /\ api.server = "not_started"
    /\ schema_version(disk) = 0
    /\ migration.runs > 0


\* The step is a loop iteration whose Plugged transition fetched and parsed
\* the energy report.
StartedSession ==
    now' = now + 1 /\ last'.transition = "Plugged" /\ last'.report3 = "ok"

\* C31: after a Plugged transition whose energy report was fetched and
\* parsed, the poller holds a snapshot parsed from an energy report, the raw
\* payloads of this tick, error_count_during_session = 0 and an empty staging
\* list, whatever the fields held before; nothing else of the poller changes.
C31_StartCapturesAndResets ==
    [][StartedSession =>
          \E report3 \in GoodReport3Answers :
              poller' = [poller EXCEPT
                            !.start_snapshot =
                                Some(ParseReport3(Unwrap(report3)).snapshot),
                            !.start_report2_raw = Some(now),
                            !.start_report3_raw = Some(now),
                            !.error_count_during_session = 0,
                            !.pending_session_log_event_ids = << >>]]_vars

\* C31 witness: the session before could not be inserted, so its log event
\* stayed staged and its error counted; the Plugged transition of this tick
\* then started a session with a fresh snapshot, counter and staging list.
C31_Witness ==
    /\ last.transition = "Plugged" /\ last.report3 = "ok"
    /\ ghost.unplugged_transitions = 1
    /\ db.sessions = << >>
    /\ \E i \in 1..Len(db.log_events) :
         db.log_events[i].code = "poll.fetch_report3_on_unplugged"
    /\ IsSome(poller.start_snapshot)
    /\ poller.error_count_during_session = 0
    /\ poller.pending_session_log_event_ids = << >>


\* The step is a loop iteration with an Unplugged transition.
EndedSession == now' = now + 1 /\ last'.transition = "Unplugged"

\* The iteration inserted the session row and linked its log events.
PersistedAndLinked ==
    /\ last'.inserted = 1
    /\ last'.link_answers # << >>
    /\ last'.link_answers[Len(last'.link_answers)] = "ok"

\* C32: an Unplugged handling that inserted and linked its session leaves
\* the poller without start snapshot and raw start payloads, with an empty
\* staging list and error_count_during_session = 0; one whose insert or link
\* failed leaves snapshot, payloads and counter as they were, and the
\* staging list as it was with the log events this handling staged behind.
C32_FinalizeResetsOnlyOnSuccess ==
    [][EndedSession =>
          IF PersistedAndLinked
          THEN poller' = [poller EXCEPT
                             !.start_snapshot = None,
                             !.start_report2_raw = None,
                             !.start_report3_raw = None,
                             !.error_count_during_session = 0,
                             !.pending_session_log_event_ids = << >>]
          ELSE /\ last'.result \in { "Database", "DbLockPoisoned" }
               /\ \E staged \in { << >> } \cup { << id >> : id \in last'.logged } :
                     poller' = [poller EXCEPT
                                   !.pending_session_log_event_ids = @ \o staged]]_vars

\* C32 witness: a session that started with an energy report and counted an
\* error was inserted and linked to its log events; the poller's session
\* fields are reset.
C32_Witness ==
    /\ last.transition = "Unplugged"
    /\ last.inserted = 1 /\ LinkSucceeded
    /\ last.linked # << >>
    /\ IsSome(db.sessions[Len(db.sessions)].raw_report2_start)
    /\ db.sessions[Len(db.sessions)].error_count_during_session > 0
    /\ poller.start_snapshot = None
    /\ poller.start_report2_raw = None
    /\ poller.start_report3_raw = None
    /\ poller.error_count_during_session = 0
    /\ poller.pending_session_log_event_ids = << >>


\* C33: every session row holds start data of its own session or none: its
\* raw_report2_start and raw_report3_start are absent or the payloads fetched
\* at the tick of its own Plugged transition, and the start snapshot its
\* energy was computed against was absent or captured at that tick.
C33_StartDataIsOwnOrAbsent ==
    \A i \in 1..Len(db.sessions) :
        LET row == db.sessions[i]
        IN  /\ row.raw_report2_start \in { None, Some(row.g_plugged_tick) }
            /\ row.raw_report3_start \in { None, Some(row.g_plugged_tick) }
            /\ IsSome(row.raw_report2_start) => row.g_plugged_tick > 0
            /\ IsSome(row.raw_report3_start) => row.g_plugged_tick > 0
            /\ row.g_snapshot_tick \in { 0, row.g_plugged_tick }


\* The answers are up to SESSION_PERSIST_MAX_RETRIES busy/locked ones and
\* otherwise ok.
Bearable(answers) ==
    /\ \A i \in 1..Len(answers) : answers[i] \in { "ok", "busy", "locked" }
    /\ Cardinality({ i \in 1..Len(answers) : answers[i] # "ok" })
           <= SESSION_PERSIST_MAX_RETRIES

\* The elements of a sequence.
Elements(seq) == { seq[i] : i \in 1..Len(seq) }

\* C34: an iteration with an Unplugged transition in which the store
\* answered busy/locked at most 3 times to the insert and at most 3 times to
\* the link, and gave no other error, ends with exactly one new session row
\* to which every staged log event (those staged before the tick and those
\* the handling of the session staged) is linked; and a row is only ever inserted in the tick
\* of its own session's Unplugged transition, so a session whose persist
\* failed is not inserted later.
C34_PersistSucceedsUnderBearableContention ==
    [][now' = now + 1 =>
          /\ (/\ last'.transition = "Unplugged"
              /\ Bearable(last'.insert_answers)
              /\ Bearable(last'.link_answers))
             => /\ Len(db'.sessions) = Len(db.sessions) + 1
                /\ last'.result \in { "ok", "ResultsIo" }
                /\ Elements(last'.linked) =
                       { << Len(db'.sessions), id >> :
                           id \in Elements(poller.pending_session_log_event_ids)
                                  \cup { e \in last'.logged :
                                           db'.log_events[e].g_session # 0 } }
          /\ \A i \in (Len(db.sessions) + 1)..Len(db'.sessions) :
                /\ last'.transition = "Unplugged"
                /\ db'.sessions[i].g_session = ghost.unplugged_transitions + 1
                /\ db'.sessions[i].raw_report2_end = Some(now)]_vars

\* C34 witness: the store was busy or locked three times at the insert and
\* at the link of a session with a staged log event, and the row and its
\* link are there; an earlier session's persist had failed and it has no row.
C34_Witness ==
    /\ last.transition = "Unplugged"
    /\ Len(last.insert_answers) = SESSION_PERSIST_MAX_RETRIES + 1
    /\ Len(last.link_answers) = SESSION_PERSIST_MAX_RETRIES + 1
    /\ last.inserted = 1
    /\ last.linked # << >>
    /\ Len(db.sessions) = 1
    /\ ghost.unplugged_transitions = 2

\* C35 as stated: a query that observes the session row finds every log
\* event staged for that session linked to it.
C35_RowImpliesAllLinks ==
    IsSome(http) =>
        (Unwrap(http).session # 0 =>
            Unwrap(http).links = Elements(combined.staged))

\* C35 amended: a query never runs while a command of the poller holds the
\* connection, so it finds the store as the calls that have returned left
\* it: no link without the row, no link before the first link call has
\* returned, only staged events linked, and all of them once
\* persist_session_and_finalize has returned Ok.
C35_QueriesSeeReturnedCommands ==
    IsSome(http) =>
        /\ ~Unwrap(http).poller_in_op
        /\ Unwrap(http).links \subseteq Elements(combined.staged)
        /\ Unwrap(http).session = 0 => Unwrap(http).links = {}
        /\ (Unwrap(http).persist = "link" /\ Unwrap(http).link_calls_returned = 0)
               => Unwrap(http).links = {}
        /\ (Unwrap(http).persist = "done")
               => /\ Unwrap(http).session # 0
                  /\ Unwrap(http).links = Elements(combined.staged)

\* C35 witness: a query that ran after persist_session_and_finalize
\* returned Ok found the row and links.
C35_Witness ==
    /\ IsSome(http)
    /\ Unwrap(http).persist = "done"
    /\ Unwrap(http).session # 0
    /\ Unwrap(http).links # {}

\* C36: a loop iteration whose plug-report fetch or parse fails leaves the
\* debouncer (stable state, pending candidate with its count and first
\* observation, session start) and the start snapshot as they were.
C36_FailedPlugReportSkipsDebouncer ==
    [][ (now' = now + 1 /\ last'.result \in {"FetchReport2", "ParseReport2"})
            => /\ machine' = machine
               /\ poller'.start_snapshot = poller.start_snapshot ]_vars

\* C36 witness: the plug report failed while a candidate against the stable
\* state was pending.
C36_Witness ==
    /\ last.result \in {"FetchReport2", "ParseReport2"}
    /\ IsSome(machine.stable_plugged)
    /\ IsSome(machine.candidate)
    /\ Unwrap(machine.candidate).count = 1

\* C37: a transition is returned only once a stable state exists, and the
\* transitions alternate. An Unplugged clears active_session_started_at;
\* the first transition, if it is an Unplugged, has plugged_at =
\* unplugged_at, and every other Unplugged has the plugged_at of the
\* Plugged returned before it.
C37_TransitionsAlternate ==
    IsSome(emitted) =>
        /\ IsSome(stable_before)
        /\ IsSome(ghost.previous) =>
               Unwrap(emitted).kind # Unwrap(ghost.previous).kind
        /\ Unwrap(emitted).kind = "Unplugged" =>
               /\ IsNone(machine.active_session_started_at)
               /\ IF IsSome(ghost.previous)
                  THEN /\ Unwrap(ghost.previous).kind = "Plugged"
                       /\ Unwrap(emitted).plugged_at = Unwrap(ghost.previous).plugged_at
                  ELSE /\ ghost.returned = 1
                       /\ Unwrap(emitted).plugged_at = Unwrap(emitted).unplugged_at

\* C37 witness: the third transition is an Unplugged that ends later than
\* the session began.
C37_Witness ==
    /\ IsSome(emitted)
    /\ Unwrap(emitted).kind = "Unplugged"
    /\ ghost.returned = 3
    /\ Unwrap(emitted).plugged_at < Unwrap(emitted).unplugged_at

\* C38: active_session_started_at is set only while the stable state is
\* plugged; a pending candidate has 1 <= count < N and, once a stable state
\* exists, the opposite value; N is at least 1 whatever the machine was
\* constructed with, and with N = 1 no candidate is pending after a call.
C38_DebouncerInvariants ==
    /\ machine.debounce_samples >= 1
    /\ IsSome(machine.active_session_started_at) => machine.stable_plugged = Some(TRUE)
    /\ IsSome(machine.candidate) =>
           /\ 1 <= Unwrap(machine.candidate).count
           /\ Unwrap(machine.candidate).count < machine.debounce_samples
           /\ IsSome(machine.stable_plugged) =>
                  Unwrap(machine.candidate).plugged # Unwrap(machine.stable_plugged)
    /\ machine.debounce_samples = 1 => IsNone(machine.candidate)

\* C38 witness: during a session a candidate for unplugged is one
\* observation short of the threshold.
C38_Witness ==
    /\ IsSome(machine.active_session_started_at)
    /\ IsSome(machine.candidate)
    /\ Unwrap(machine.candidate).count = machine.debounce_samples - 1
    /\ ~Unwrap(machine.candidate).plugged

\* What a caller sees of a machine.
Visible(m) ==
    [ stable_plugged |-> m.stable_plugged,
      active_session_started_at |-> m.active_session_started_at ]

\* C39: observe with a Clock, observe_at given the clock's readings, and
\* any mix of the two return the same transitions with the same
\* timestamps and leave the same stable_plugged and
\* active_session_started_at.
C39_ObserveAgreesWithObserveAt ==
    /\ ghost.by_at_returned = emitted
    /\ ghost.mixed_returned = emitted
    /\ Visible(ghost.by_at) = Visible(machine)
    /\ Visible(ghost.mixed) = Visible(machine)

\* C39 witness: the two entry points were mixed, the machines went through
\* an adoption in which their candidates were stamped differently, and the
\* call returned an Unplugged that closes a session of some length.
C39_Witness ==
    /\ ghost.entry_points = {"observe", "observe_at"}
    /\ IsSome(emitted)
    /\ Unwrap(emitted).kind = "Unplugged"
    /\ Unwrap(emitted).plugged_at < Unwrap(emitted).unplugged_at
    /\ machine.debounce_samples = 2

\* The value of a source before clamping: the difference of the two
\* readings for the delta sources, the end reading for PresentSession.
RawValue(source, start, end) ==
    CASE source = "PresentSessionDelta" ->
             FSub(Unwrap(end.present_session_kwh), Unwrap(StartPresent(start)))
      [] source = "PresentSession" -> Unwrap(end.present_session_kwh)
      [] source = "TotalDelta" ->
             FSub(Unwrap(end.total_kwh), Unwrap(StartTotal(start)))

\* The warning that belongs to a source.
WarningOf(source) ==
    CASE source = "PresentSessionDelta" -> "NegativePresentSessionDeltaClamped"
      [] source = "PresentSession" -> "NegativePresentSessionValueClamped"
      [] source = "TotalDelta" -> "NegativeTotalDeltaClamped"

\* C40: a successful compute_session_kwh returns warnings exactly when the
\* raw value of the chosen source is negative; then kwh is 0 and the list
\* holds the one warning of that source; otherwise kwh is the raw value and
\* the list is empty.
C40_WarningsIffNegativeRaw ==
    (IsSome(e_result) /\ Unwrap(e_result).ok) =>
        \A raw \in {RawValue(Unwrap(e_result).source, e_start, Unwrap(e_end))} :
            /\ Unwrap(e_result).warnings # << >> <=> FLtZero(raw)
            /\ FLtZero(raw) =>
                   /\ Unwrap(e_result).kwh = Fin(0)
                   /\ Unwrap(e_result).warnings = << WarningOf(Unwrap(e_result).source) >>
            /\ ~FLtZero(raw) =>
                   /\ Unwrap(e_result).kwh = raw
                   /\ Unwrap(e_result).warnings = << >>

\* C40 witness: the total counter went backwards and the delta was clamped.
C40_Witness ==
    /\ IsSome(e_result)
    /\ Unwrap(e_result).ok
    /\ Unwrap(e_result).source = "TotalDelta"
    /\ Unwrap(e_result).kwh = Fin(0)
    /\ Unwrap(e_result).warnings = << "NegativeTotalDeltaClamped" >>
    /\ FLtZero(FSub(Unwrap(Unwrap(e_end).total_kwh), Unwrap(StartTotal(e_start))))

====
